---- MODULE Spec2Model ----
(***************************************************************************)
(* CrimeSpotter UK: the Express server (dates cache, coordinate validator, *)
(* API handlers) as a state machine.  Requests are handled on one event    *)
(* loop: each action is one synchronous run of handler code, from an entry *)
(* point or the resolution of an await to the next await or the response.  *)
(***************************************************************************)
EXTENDS Integers, Sequences, FiniteSets, TLC

VARIABLES
    revision,    \* which server file is deployed (they differ in validateCoordinates)
    now,         \* Date.now(), in milliseconds
    datesCache,  \* the module-level cache object {data, timestamp, ttl}
    req,         \* per in-flight request: handler position and locals
    lastCommit,  \* history: the {data, timestamp} pair of the latest refresh write
    vin,         \* validateCoordinates: the argument texts under test
    vout,        \* validateCoordinates: its return value
    fin,         \* the crime list, request body or query under test
    fout,        \* what the functions under test returned for it
    nodeEnv,     \* process.env.NODE_ENV
    client       \* the state of the page's script in one browser tab

vars == <<revision, now, datesCache, req, lastCommit, vin, vout, fin, fout, nodeEnv, client>>

-----------------------------------------------------------------------------
(* JavaScript values                                                        *)

JsNull == [type |-> "null"]
JsUndefined == [type |-> "undefined"]
Num(n) == [type |-> "number", v |-> n]
Str(s) == [type |-> "string", v |-> s]

\* a string kept as its characters, for the code that looks inside it
Txt(chars) == [type |-> "text", v |-> chars]

\* ToBoolean, as used by &&, || and !
Truthy(x) ==
    CASE x.type = "null" -> FALSE
      [] x.type = "undefined" -> FALSE
      [] x.type = "number" -> x.v # 0
      [] x.type = "string" -> x.v # ""
      [] x.type = "text" -> x.v # <<>>
      [] OTHER -> TRUE

-----------------------------------------------------------------------------
(* parseFloat.  A text is a sequence of one-character strings; a number is  *)
(* NaN, +-Infinity or +-m * 10^e with m a natural number.                   *)

Digits == <<"0", "1", "2", "3", "4", "5", "6", "7", "8", "9">>

IsDigit(c) == \E i \in 1..10 : Digits[i] = c

DigitVal(c) == (CHOOSE i \in 1..10 : Digits[i] = c) - 1

IsSpace(c) == c = " "

RECURSIVE SkipSpaces(_)
SkipSpaces(s) == IF s # <<>> /\ IsSpace(Head(s)) THEN SkipSpaces(Tail(s)) ELSE s

RECURSIVE TakeDigits(_)
TakeDigits(s) ==
    IF s # <<>> /\ IsDigit(Head(s)) THEN <<Head(s)>> \o TakeDigits(Tail(s)) ELSE <<>>

Drop(s, n) == SubSeq(s, n + 1, Len(s))

StartsWith(s, p) == Len(s) >= Len(p) /\ SubSeq(s, 1, Len(p)) = p

RECURSIVE DigitsToNat(_)
DigitsToNat(ds) ==
    IF ds = <<>> THEN 0
    ELSE DigitsToNat(SubSeq(ds, 1, Len(ds) - 1)) * 10 + DigitVal(ds[Len(ds)])

RECURSIVE Pow10(_)
Pow10(n) == IF n <= 0 THEN 1 ELSE 10 * Pow10(n - 1)

RECURSIVE NumDigits(_)
NumDigits(m) == IF m < 10 THEN 1 ELSE 1 + NumDigits(m \div 10)

NaN == [kind |-> "nan", neg |-> FALSE, m |-> 0, e |-> 0]
Infinite(neg) == [kind |-> "inf", neg |-> neg, m |-> 0, e |-> 0]
Finite(neg, m, e) == [kind |-> "num", neg |-> neg, m |-> m, e |-> e]

\* the largest double is 1.7976931348623157e308: a decimal beyond it reads as Infinity
Overflows(m, e) ==
    /\ m > 0
    /\ LET d == NumDigits(m)
           top == d - 1 + e      \* decimal exponent of the leading digit
           lead == IF d >= 6 THEN m \div Pow10(d - 6) ELSE m * Pow10(6 - d)
       IN \/ top > 308
          \/ top = 308 /\ lead > 179769

\* the exponent part [eE][+-]?digits, when present and well-formed: <<value, length>>
ExponentPart(s) ==
    IF s # <<>> /\ Head(s) \in {"e", "E"}
    THEN LET t == Tail(s)
             signed == t # <<>> /\ Head(t) \in {"+", "-"}
             u == IF signed THEN Tail(t) ELSE t
             ds == TakeDigits(u)
             val == DigitsToNat(ds)
         IN IF ds = <<>> THEN <<0, 0>>
            ELSE <<IF signed /\ Head(t) = "-" THEN -val ELSE val,
                   1 + (IF signed THEN 1 ELSE 0) + Len(ds)>>
    ELSE <<0, 0>>

parseFloat(text) ==
    LET s0 == SkipSpaces(text)
        signed == s0 # <<>> /\ Head(s0) \in {"+", "-"}
        neg == signed /\ Head(s0) = "-"
        s1 == IF signed THEN Tail(s0) ELSE s0
        int == TakeDigits(s1)
        s2 == Drop(s1, Len(int))
        dot == s2 # <<>> /\ Head(s2) = "."
        frac == IF dot THEN TakeDigits(Tail(s2)) ELSE <<>>
        s3 == IF dot THEN Drop(s2, 1 + Len(frac)) ELSE s2
        ex == ExponentPart(s3)
        m == DigitsToNat(int \o frac)
        e == ex[1] - Len(frac)
    IN IF StartsWith(s1, <<"I", "n", "f", "i", "n", "i", "t", "y">>) THEN Infinite(neg)
       ELSE IF int = <<>> /\ frac = <<>> THEN NaN
       ELSE IF Overflows(m, e) THEN Infinite(neg)
       ELSE Finite(neg, m, e)

isNaN(x) == x.kind = "nan"

NumberIsFinite(x) == x.kind = "num"

\* |x| > b for a finite x and a natural number b
MagnitudeAbove(x, b) ==
    IF x.m = 0 THEN FALSE
    ELSE IF x.e >= 0
         THEN x.m > b \/ x.e >= 4 \/ x.m * Pow10(x.e) > b
         ELSE NumDigits(x.m) + x.e >= 1 /\ x.m > b * Pow10(-x.e)

\* x > b and x < -b, as JavaScript compares (every comparison with NaN is false)
GreaterThan(x, b) ==
    CASE x.kind = "nan" -> FALSE
      [] x.kind = "inf" -> ~x.neg
      [] OTHER -> ~x.neg /\ MagnitudeAbove(x, b)

LessThanMinus(x, b) ==
    CASE x.kind = "nan" -> FALSE
      [] x.kind = "inf" -> x.neg
      [] OTHER -> x.neg /\ MagnitudeAbove(x, b)

-----------------------------------------------------------------------------
(* validateCoordinates                                                      *)

FormatError == "Invalid coordinate format"
LatitudeError == "Latitude must be between -90 and 90"
LongitudeError == "Longitude must be between -180 and 180"

MaxLatitude == 90
MaxLongitude == 180

Invalid(error) == [valid |-> FALSE, error |-> error, lat |-> NaN, lng |-> NaN]

\* faulty variant: the longitude is checked before the latitude
RangeChecksLngFirst(latitude, longitude) ==
    IF LessThanMinus(longitude, MaxLongitude) \/ GreaterThan(longitude, MaxLongitude)
    THEN Invalid(LongitudeError)
    ELSE IF LessThanMinus(latitude, MaxLatitude) \/ GreaterThan(latitude, MaxLatitude)
    THEN Invalid(LatitudeError)
    ELSE [valid |-> TRUE, error |-> "", lat |-> latitude, lng |-> longitude]

RangeChecks(latitude, longitude) ==
    IF LessThanMinus(latitude, MaxLatitude) \/ GreaterThan(latitude, MaxLatitude)
    THEN Invalid(LatitudeError)
    ELSE IF LessThanMinus(longitude, MaxLongitude) \/ GreaterThan(longitude, MaxLongitude)
    THEN Invalid(LongitudeError)
    ELSE [valid |-> TRUE, error |-> "", lat |-> latitude, lng |-> longitude]

\* src/unnamed/part_001: the format check is Number.isFinite
validateCoordinatesIsFinite(lat, lng) ==
    LET latitude == parseFloat(lat)
        longitude == parseFloat(lng)
    IN IF ~NumberIsFinite(latitude) \/ ~NumberIsFinite(longitude)
       THEN Invalid(FormatError)
       ELSE RangeChecks(latitude, longitude)

\* src/server.js and src/unnamed/part_000: the format check is isNaN
validateCoordinatesIsNaN(lat, lng) ==
    LET latitude == parseFloat(lat)
        longitude == parseFloat(lng)
    IN IF isNaN(latitude) \/ isNaN(longitude)
       THEN Invalid(FormatError)
       ELSE RangeChecks(latitude, longitude)

validateCoordinates(rev, lat, lng) ==
    IF rev = "part_001" THEN validateCoordinatesIsFinite(lat, lng)
    ELSE validateCoordinatesIsNaN(lat, lng)

-----------------------------------------------------------------------------
(* Crime records, processCrimeCategories, calculateBounds                   *)

\* what a function call ends with
Returned(value) == [threw |-> FALSE, value |-> value]
Threw == [threw |-> TRUE, value |-> JsUndefined]

Crime(category, location) == [type |-> "object", category |-> category, location |-> location]

Location(latitude, longitude) ==
    [type |-> "object", latitude |-> latitude, longitude |-> longitude]

\* members every plain object inherits from Object.prototype (functions all)
ObjectPrototypeKeys ==
    { "constructor", "toString", "toLocaleString", "valueOf", "hasOwnProperty",
      "isPrototypeOf", "propertyIsEnumerable" }

FunctionText == "function Object() { [native code] }"

\* categories[k] on the object literal: own property, inherited member, or undefined
GetProperty(categories, k) ==
    IF k \in DOMAIN categories THEN categories[k]
    ELSE IF k \in ObjectPrototypeKeys THEN [type |-> "function"]
    ELSE JsUndefined

\* (x || 0) + 1: addition on numbers, concatenation once an operand is not one
OrZeroPlusOne(x) ==
    IF ~Truthy(x) THEN Num(1)
    ELSE IF x.type = "number" THEN Num(x.v + 1)
    ELSE IF x.type = "function" THEN Str(FunctionText \o "1")
    ELSE Str(x.v \o "1")

\* categories[k] = value
SetProperty(categories, k, value) ==
    [j \in DOMAIN categories \cup {k} |-> IF j = k THEN value ELSE categories[j]]

\* the body of the forEach callback, for a record that is an object
CategoryStep(categories, c) ==
    LET k == IF Truthy(c.category) THEN c.category.v ELSE "unknown"
    IN SetProperty(categories, k, OrZeroPlusOne(GetProperty(categories, k)))

RECURSIVE ForEachCategory(_, _)
ForEachCategory(categories, items) ==
    IF items = <<>> THEN Returned(categories)
    ELSE IF Head(items).type # "object" THEN Threw    \* c.category of null
    ELSE ForEachCategory(CategoryStep(categories, Head(items)), Tail(items))

processCrimeCategories(crimes) ==
    IF crimes.type = "null" THEN Returned(<<>>)          \* part_001: (crimes || [])
    ELSE ForEachCategory(<<>>, crimes.items)

\* x <= y for two parsed numbers, neither NaN
LessOrEqual(x, y) ==
    IF x.kind = "inf" THEN x.neg \/ (y.kind = "inf" /\ ~y.neg)
    ELSE IF y.kind = "inf" THEN ~y.neg
    ELSE LET lo == IF x.e < y.e THEN x.e ELSE y.e
             a == (IF x.neg THEN -1 ELSE 1) * x.m * Pow10(x.e - lo)
             b == (IF y.neg THEN -1 ELSE 1) * y.m * Pow10(y.e - lo)
         IN a <= b

\* Math.max(...nums) and Math.min(...nums) of a non-empty list: NaN if any is NaN
MathMax(nums) ==
    IF \E i \in 1..Len(nums) : nums[i].kind = "nan" THEN NaN
    ELSE nums[CHOOSE i \in 1..Len(nums) : \A j \in 1..Len(nums) : LessOrEqual(nums[j], nums[i])]

MathMin(nums) ==
    IF \E i \in 1..Len(nums) : nums[i].kind = "nan" THEN NaN
    ELSE nums[CHOOSE i \in 1..Len(nums) : \A j \in 1..Len(nums) : LessOrEqual(nums[i], nums[j])]

\* c?.location?.latitude && c?.location?.longitude
HasPoint(c) ==
    /\ c.type = "object"
    /\ c.location.type = "object"
    /\ Truthy(c.location.latitude)
    /\ Truthy(c.location.longitude)

calculateBounds(crimes) ==
    IF crimes.type # "array" \/ Len(crimes.items) = 0 THEN JsNull
    ELSE LET points == SelectSeq(crimes.items, HasPoint)
             lats == [i \in 1..Len(points) |-> parseFloat(points[i].location.latitude.v)]
             lngs == [i \in 1..Len(points) |-> parseFloat(points[i].location.longitude.v)]
         IN IF Len(points) = 0 THEN JsNull
            ELSE [type |-> "object",
                  north |-> MathMax(lats), south |-> MathMin(lats),
                  east |-> MathMax(lngs), west |-> MathMin(lngs)]

-----------------------------------------------------------------------------
(* Bounds                                                                   *)

\* the clock runs MaxTicks half-ttl steps past its start
MaxTicks == 2

\* concurrent request slots
Reqs == {"r1", "r2"}

-----------------------------------------------------------------------------
(* Dates cache                                                              *)

TTL == 60 * 60 * 1000

FallbackDate == "2025-06"

Tick == TTL \div 2

InitialCache == [data |-> JsNull, timestamp |-> JsNull, ttl |-> TTL]

\* faulty variant: the entry still counts as valid when exactly ttl has elapsed
CacheValidInclusive(cache, t) ==
    /\ Truthy(cache.data)
    /\ Truthy(cache.timestamp)
    /\ (t - cache.timestamp.v) <= cache.ttl

\* faulty variant: a call that finds another refresh in flight returns what is cached
CacheValidOrRefreshing(cache, t) ==
    \/ /\ Truthy(cache.data)
       /\ Truthy(cache.timestamp)
       /\ (t - cache.timestamp.v) < cache.ttl
    \/ \E q \in DOMAIN req : req[q].pc \in {"gadFetch", "gadJson"}

\* the condition of the `if` that returns the cached data
CacheValid(cache, t) ==
    /\ Truthy(cache.data)
    /\ Truthy(cache.timestamp)
    /\ (t - cache.timestamp.v) < cache.ttl

\* what the upstream dates endpoint may answer with (parsed JSON)
DateEntries ==
    { [date |-> Str("2025-08")], [date |-> JsUndefined] }

DatesBodies ==
    { [type |-> "null"], [type |-> "array", items |-> <<>>] }
    \cup { [type |-> "array", items |-> <<e>>] : e \in DateEntries }
    \cup { [type |-> "array", items |-> <<[date |-> Str("2025-08")], [date |-> Str("2025-07")]>>] }

\* dates && dates.length > 0
HasEntries(dates) == dates.type = "array" /\ Len(dates.items) > 0

\* faulty variant: the last entry instead of the first
LatestDateLast(dates) ==
    IF HasEntries(dates) THEN dates.items[Len(dates.items)].date ELSE Str(FallbackDate)

\* const latestDate = (dates && dates.length > 0) ? dates[0].date : '2025-06'
LatestDate(dates) ==
    IF HasEntries(dates) THEN dates.items[1].date ELSE Str(FallbackDate)

\* faulty variant: the entry is merged in place and the old timestamp survives
RefreshedCacheMerged(cache, latestDate, t) ==
    [data |-> latestDate,
     timestamp |-> IF cache.timestamp = JsNull THEN Num(t) ELSE cache.timestamp,
     ttl |-> cache.ttl]

\* datesCache = { data: latestDate, timestamp: now, ttl: datesCache.ttl }
RefreshedCache(cache, latestDate, t) ==
    [data |-> latestDate, timestamp |-> Num(t), ttl |-> cache.ttl]

\* faulty variant: /api/dates drops the cached entry
ApiDatesCacheReset(cache) == [data |-> JsNull, timestamp |-> JsNull, ttl |-> cache.ttl]

\* /api/dates fetches the same list and leaves the cache alone
ApiDatesCache(cache) == cache

\* faulty variant: the catch block rethrows
OnRefreshErrorRethrow == [outcome |-> "throw", value |-> JsUndefined]

\* the catch block of getAvailableDates
OnRefreshError == [outcome |-> "return", value |-> Str(FallbackDate)]

-----------------------------------------------------------------------------
(* Requests                                                                 *)

NoSent == [dates |-> 0, crimes |-> 0, forces |-> 0]

NoResponse == [status |-> 0, success |-> FALSE, error |-> "", payload |-> JsUndefined]

NoValidation == [valid |-> FALSE, error |-> "not validated", lat |-> NaN, lng |-> NaN]

IdleReq ==
    [ kind |-> "idle", pc |-> "idle",
      date |-> JsUndefined,         \* const { date } = req.query
      validation |-> NoValidation,  \* const validation = validateCoordinates(lat, lng)
      queryDate |-> JsUndefined,    \* const queryDate
      gad |-> "none",               \* getAvailableDates: none, hit, pending, refreshed, failed
      gadNow |-> 0,                 \* its `now`, while it awaits
      gadResult |-> JsUndefined,    \* what it returned
      gadThrew |-> FALSE,           \* or that it threw
      tornRead |-> FALSE,           \* history: its cache check read a pair no refresh wrote
      cacheReads |-> 0,             \* history: cache checks made
      firstDate |-> JsNull,         \* history: date of the first entry its refresh parsed
      sent |-> NoSent,              \* history: upstream requests issued, per resource
      failure |-> "none",           \* history: what the handler's catch block caught
      responses |-> 0,              \* history: responses written to res
      sanitized |-> JsUndefined,    \* /api/contact: const sanitized
      res |-> NoResponse ]

\* the getAvailableDates call is over and its caller has moved on
ForgetGad(rec) ==
    [rec EXCEPT !.gad = "none", !.gadNow = 0, !.gadResult = JsUndefined,
                !.gadThrew = FALSE, !.firstDate = JsNull]

\* fetch(url, {timeout}): resolves with ok or a non-2xx status, or rejects
FetchOutcomes == {"ok", "http_error", "timeout", "network_error"}

\* Error.message of what the handlers may catch, by what the text mentions
ErrorMessage(kind) ==
    [ timeout |-> kind = "timeout",           \* node-fetch: 'network timeout at: <url>'
      policeApi |-> kind = "crimes_status",   \* `UK Police API error: ${status} ...`
      kind |-> kind ]

Respond(rec, status, success, error, payload) ==
    [rec EXCEPT !.pc = "done",
                !.date = JsUndefined,       \* the handler returns: its locals are gone
                !.queryDate = JsUndefined,
                !.responses = @ + 1,
                !.res = [status |-> status, success |-> success,
                         error |-> error, payload |-> payload]]

\* fetch(...) is called once
IssueFetch(rec, resource) == [rec EXCEPT !.sent[resource] = @ + 1]

CrimesError == "Failed to fetch crime data. Please try again."

\* faulty variant: the catch block answers with an empty result
CrimesCatchAsEmpty(rec, message) ==
    Respond([rec EXCEPT !.failure = message.kind], 200, TRUE, "",
            [location |-> <<rec.validation.lat, rec.validation.lng>>,
             date |-> rec.queryDate, count |-> 0, crimes |-> <<>>, categories |-> <<>>,
             bounds |-> JsNull, sample |-> JsNull, message |-> JsNull])

\* faulty variant: the error text is attached whatever NODE_ENV is
ErrorDetailsAlways(env, message) == [details |-> Str(message.kind)]

\* details: process.env.NODE_ENV === 'development' ? error.message : undefined
\* (res.json leaves an undefined field out of the body)
ErrorDetails(env, message) ==
    IF env = Str("development") THEN [details |-> Str(message.kind)] ELSE JsUndefined

\* the catch block of /api/crimes
CrimesCatch(rec, message) ==
    LET statusCode == IF message.timeout THEN 504
                      ELSE IF message.policeApi THEN 502 ELSE 500
    IN Respond([rec EXCEPT !.failure = message.kind], statusCode, FALSE, CrimesError,
               ErrorDetails(nodeEnv, message))

\* faulty variant: the latest month is queried whatever date the caller gave
CrimesFetchLatest(rec, queryDate) ==
    IssueFetch([rec EXCEPT !.queryDate = IF Truthy(datesCache.data) THEN datesCache.data
                                         ELSE Str(FallbackDate),
                           !.pc = "crimesFetch"], "crimes")

\* /api/crimes from `const ukApiUrl` to `await fetch(ukApiUrl, ...)`
CrimesFetch(rec, queryDate) ==
    IssueFetch([rec EXCEPT !.queryDate = queryDate, !.pc = "crimesFetch"], "crimes")

\* the caller of getAvailableDates resumes with what it returned or threw
AfterGad(rec, out) ==
    LET r1 == [rec EXCEPT !.gadResult = IF out.outcome = "return" THEN out.value ELSE @,
                          !.gadThrew = out.outcome = "throw",
                          !.gadNow = 0]
    IN IF rec.kind = "crimes"
       THEN IF out.outcome = "return" THEN CrimesFetch(r1, out.value)
            ELSE CrimesCatch(r1, ErrorMessage("dates"))
       ELSE \* app.get('/'): render index, or the error page
            IF out.outcome = "return" THEN Respond(r1, 200, TRUE, "", out.value)
            ELSE Respond(r1, 500, FALSE, "Unable to load page", JsUndefined)

\* getAvailableDates up to its first await
GadEnter(rec) ==
    LET read == <<datesCache.data, datesCache.timestamp>>
        r1 == [rec EXCEPT !.gadNow = now,
                          !.tornRead = read \notin {<<JsNull, JsNull>>, lastCommit},
                          !.cacheReads = @ + 1]
    IN IF CacheValid(datesCache, now)
       THEN AfterGad([r1 EXCEPT !.gad = "hit"],
                     [outcome |-> "return", value |-> datesCache.data])
       ELSE IssueFetch([r1 EXCEPT !.gad = "pending", !.pc = "gadFetch"], "dates")

\* faulty variant: a failed fetch is issued once more before giving up
GadFailedRetry(rec) ==
    IF rec.sent.dates < 2 THEN IssueFetch([rec EXCEPT !.pc = "gadFetch"], "dates")
    ELSE AfterGad([rec EXCEPT !.gad = "failed"], OnRefreshError)

\* getAvailableDates: the try block threw; the catch block returns the fallback
GadFailed(rec) == AfterGad([rec EXCEPT !.gad = "failed"], OnRefreshError)

-----------------------------------------------------------------------------
(* Query parameters                                                         *)

Absent == [present |-> FALSE, text |-> <<>>]
Param(text) == [present |-> TRUE, text |-> text]

DefaultLat == <<"5", "1", ".", "5", "0", "7", "4">>
DefaultLng == <<"-", "0", ".", "1", "2", "7", "8">>

LatInputs ==
    { Absent, Param(<<"a", "b", "c">>), Param(<<"9", "1">>),
      Param(<<"5", "1", ".", "5", "0", "7", "4">>),
      Param(<<"I", "n", "f", "i", "n", "i", "t", "y">>) }

LngInputs ==
    { Absent, Param(<<>>), Param(<<"1", "8", "1">>) }

DateInputs == { JsUndefined, Str(""), Str("2024-01") }

\* faulty variant: the 400 branch lacks its `return` and the handler goes on to fetch
CrimesEntryNoReturn(rec, lat, lng, date) ==
    LET validation == validateCoordinates(revision,
                          IF lat.present THEN lat.text ELSE DefaultLat,
                          IF lng.present THEN lng.text ELSE DefaultLng)
        r1 == [rec EXCEPT !.kind = "crimes", !.date = date, !.validation = validation]
    IN IF ~validation.valid
       THEN IssueFetch(Respond(r1, 400, FALSE, validation.error, JsUndefined), "crimes")
       ELSE IF Truthy(date) THEN CrimesFetch(r1, date)
       ELSE GadEnter(r1)

\* /api/crimes up to its first await or its 400 response
CrimesEntry(rec, lat, lng, date) ==
    LET validation == validateCoordinates(revision,
                          IF lat.present THEN lat.text ELSE DefaultLat,
                          IF lng.present THEN lng.text ELSE DefaultLng)
        r1 == [rec EXCEPT !.kind = "crimes", !.date = date, !.validation = validation]
    IN IF ~validation.valid
       THEN Respond(r1, 400, FALSE, validation.error, JsUndefined)
       ELSE IF Truthy(date) THEN CrimesFetch(r1, date)
       ELSE GadEnter(r1)

-----------------------------------------------------------------------------
(* /api/crimes, /api/dates, /api/forces: upstream bodies and responses      *)

Burglary == Crime(Str("burglary"), Location(Txt(<<"5", "1", ".", "5">>), Txt(<<"-", "0", ".", "1">>)))
Robbery == Crime(Str("robbery"), Location(Txt(<<"5", "2">>), Txt(<<"-", "2">>)))
Bare == Crime(JsUndefined, JsUndefined)

CrimesBodies ==
    { [type |-> "null"],
      [type |-> "array", items |-> <<>>],
      [type |-> "array", items |-> <<Burglary>>],
      [type |-> "array", items |-> <<Bare, Robbery, Burglary>>],
      [type |-> "array", items |-> <<JsNull>>] }

NoCrimesMessage == "No crimes found in this area for the selected period"

\* faulty variant: the sample is the last record
CrimesSuccessLastSample(rec, crimes) ==
    IF crimes.type # "array"
    THEN CrimesCatch(rec, ErrorMessage("type_error"))
    ELSE LET categories == processCrimeCategories(crimes)
             bounds == calculateBounds(crimes)
         IN IF categories.threw
            THEN CrimesCatch(rec, ErrorMessage("type_error"))
            ELSE Respond(rec, 200, TRUE, "",
                    [location |-> <<rec.validation.lat, rec.validation.lng>>,
                     date |-> rec.queryDate,
                     count |-> Len(crimes.items),
                     crimes |-> crimes.items,
                     categories |-> categories.value,
                     bounds |-> bounds,
                     sample |-> IF Len(crimes.items) > 0
                                THEN crimes.items[Len(crimes.items)] ELSE JsNull,
                     message |-> IF Len(crimes.items) = 0
                                 THEN Str(NoCrimesMessage) ELSE JsNull])

\* /api/crimes after `const crimes = await response.json()`
CrimesSuccess(rec, crimes) ==
    IF crimes.type # "array"
    THEN CrimesCatch(rec, ErrorMessage("type_error"))   \* crimes.length of null throws
    ELSE LET categories == processCrimeCategories(crimes)
             bounds == calculateBounds(crimes)
         IN IF categories.threw
            THEN CrimesCatch(rec, ErrorMessage("type_error"))
            ELSE Respond(rec, 200, TRUE, "",
                    [location |-> <<rec.validation.lat, rec.validation.lng>>,
                     date |-> rec.queryDate,
                     count |-> Len(crimes.items),
                     crimes |-> crimes.items,
                     categories |-> categories.value,
                     bounds |-> bounds,
                     sample |-> IF Len(crimes.items) > 0 THEN crimes.items[1] ELSE JsNull,
                     message |-> IF Len(crimes.items) = 0
                                 THEN Str(NoCrimesMessage) ELSE JsNull])

\* faulty variant: the whole list is returned
Slice12All(items) == items

\* dates.slice(0, 12)
Slice12(items) == SubSeq(items, 1, IF Len(items) < 12 THEN Len(items) ELSE 12)

\* the catch block of /api/dates
ApiDatesCatch(rec) == Respond(rec, 500, FALSE, "Unable to fetch available dates", JsUndefined)

\* the `latest` field: dates[0]?.date || null, and in the oldest revision
\* dates.length > 0 ? dates[0].date : null
ApiDatesLatest(rev, items) ==
    IF rev = "server.js"
    THEN IF Len(items) > 0 THEN items[1].date ELSE JsNull
    ELSE IF Len(items) > 0 /\ Truthy(items[1].date) THEN items[1].date ELSE JsNull

\* /api/dates after `const dates = await response.json()`
ApiDatesSuccess(rev, rec, dates) ==
    IF dates.type # "array"
    THEN ApiDatesCatch(rec)
    ELSE Respond(rec, 200, TRUE, "",
                 [dates |-> Slice12(dates.items),
                  latest |-> ApiDatesLatest(rev, dates.items)])

ForcesBodies == { [type |-> "array", items |-> <<>>], [type |-> "array", items |-> <<"met">>] }

-----------------------------------------------------------------------------
(* /api/search                                                              *)

UpperCase == <<"A", "B", "C", "D", "E", "F", "G", "H", "I", "J", "K", "L", "M",
               "N", "O", "P", "Q", "R", "S", "T", "U", "V", "W", "X", "Y", "Z">>
LowerCase == <<"a", "b", "c", "d", "e", "f", "g", "h", "i", "j", "k", "l", "m",
               "n", "o", "p", "q", "r", "s", "t", "u", "v", "w", "x", "y", "z">>

toLowerCase(text) ==
    [i \in 1..Len(text) |->
        IF \E k \in 1..26 : UpperCase[k] = text[i]
        THEN LowerCase[CHOOSE k \in 1..26 : UpperCase[k] = text[i]]
        ELSE text[i]]

includes(text, q) ==
    \E i \in 1..(Len(text) - Len(q) + 1) : SubSeq(text, i, i + Len(q) - 1) = q

SearchNames ==
    << <<"L", "o", "n", "d", "o", "n">>,
       <<"M", "a", "n", "c", "h", "e", "s", "t", "e", "r">>,
       <<"B", "i", "r", "m", "i", "n", "g", "h", "a", "m">>,
       <<"L", "e", "e", "d", "s">>,
       <<"L", "i", "v", "e", "r", "p", "o", "o", "l">> >>

SearchInputs ==
    { Absent, Param(<<"L", "o">>), Param(<<"l", "O", "N">>) }

\* faulty variant: the query is compared as typed
SearchAsTyped(rec, q) ==
    LET Matches(name) == includes(toLowerCase(name), q.text)
    IN IF ~q.present \/ Len(q.text) = 0 \/ Len(q.text) < 3
       THEN Respond([rec EXCEPT !.kind = "search"], 200, TRUE, "", <<>>)
       ELSE Respond([rec EXCEPT !.kind = "search"], 200, TRUE, "",
                    SelectSeq(SearchNames, Matches))

\* app.get('/api/search')
Search(rec, q) ==
    LET Matches(name) == includes(toLowerCase(name), toLowerCase(q.text))
    IN IF ~q.present \/ Len(q.text) = 0 \/ Len(q.text) < 3
       THEN Respond([rec EXCEPT !.kind = "search"], 200, TRUE, "", <<>>)
       ELSE Respond([rec EXCEPT !.kind = "search"], 200, TRUE, "",
                    SelectSeq(SearchNames, Matches))

-----------------------------------------------------------------------------
(* /api/contact                                                             *)

\* faulty variant: the pattern without its anchors ^ and $
EmailRegexTestUnanchored(email) ==
    \E at \in 2..Len(email) :
       /\ email[at] = "@"
       /\ ~IsSpace(email[at - 1]) /\ email[at - 1] # "@"
       /\ \E dot \in (at + 2)..(Len(email) - 1) :
             /\ email[dot] = "."
             /\ \A i \in ((at + 1)..(dot - 1)) \cup {dot + 1} :
                   ~IsSpace(email[i]) /\ email[i] # "@"

\* /^[^\s@]+@[^\s@]+\.[^\s@]+$/.test(email)
EmailRegexTest(email) ==
    /\ \A i \in 1..Len(email) : ~IsSpace(email[i])
    /\ \E at \in 2..Len(email) :
          /\ email[at] = "@"
          /\ \A i \in 1..Len(email) : email[i] = "@" => i = at
          /\ \E dot \in (at + 2)..(Len(email) - 1) : email[dot] = "."

ContactEmails ==
    { Param(<<>>), Param(<<"a", "@", "b", ".", "c">>), Param(<<"a", "@", "b">>) }

ContactTexts == { Absent, Param(<<"<", "h", "i", ">">>) }

MaxNameLength == 100
MaxEmailLength == 100
MaxSubjectLength == 200
MaxMessageLength == 5000

\* text.slice(0, n)
Slice(text, n) == SubSeq(text, 1, IF Len(text) < n THEN Len(text) ELSE n)

NotAngle(c) == c \notin {"<", ">"}

\* text.replace(/[<>]/g, '')
RemoveAngles(text) == SelectSeq(text, NotAngle)

\* app.post('/api/contact'), for fields that are strings or absent
Contact(rec, name, email, subject, message) ==
    LET Missing(f) == ~f.present \/ f.text = <<>>
        r1 == [rec EXCEPT !.kind = "contact"]
        sanitized ==
            [name |-> RemoveAngles(Slice(name.text, MaxNameLength)),
             email |-> Slice(email.text, MaxEmailLength),
             subject |-> RemoveAngles(Slice(subject.text, MaxSubjectLength)),
             message |-> RemoveAngles(Slice(message.text, MaxMessageLength))]
    IN IF Missing(name) \/ Missing(email) \/ Missing(subject) \/ Missing(message)
       THEN Respond(r1, 400, FALSE, "All fields are required", JsUndefined)
       ELSE IF ~EmailRegexTest(email.text)
       THEN Respond(r1, 400, FALSE, "Invalid email address", JsUndefined)
       ELSE Respond([r1 EXCEPT !.sanitized = sanitized], 200, TRUE, "", JsUndefined)

NotApplied == [lat |-> <<>>, lng |-> <<>>, done |-> FALSE]

\* no function is under test
NoInput == [fn |-> "none"]

\* no page is open
NoClient == [page |-> "none"]
NoOutput == [fn |-> "none"]

-----------------------------------------------------------------------------
(* Initial state and actions                                                *)

Init ==
    /\ revision \in {"part_001", "server.js"}
    /\ now = Tick
    /\ datesCache = InitialCache
    /\ req = [r \in Reqs |-> IdleReq]
    /\ lastCommit = <<JsNull, JsNull>>
    /\ vin = NotApplied
    /\ vout = NoValidation
    /\ fin = NoInput
    /\ fout = NoOutput
    /\ nodeEnv = Str("production")
    /\ client = NoClient

\* time passes
Advance ==
    /\ now < Tick * (MaxTicks + 1)
    /\ now' = now + Tick
    /\ UNCHANGED <<revision, datesCache, req, lastCommit, vin, vout, fin, fout, nodeEnv, client>>

\* GET / (also the sitemap and the startup callback): await getAvailableDates()
PageRequest(r) ==
    /\ req[r].pc = "idle"
    /\ req' = [req EXCEPT ![r] = GadEnter([@ EXCEPT !.kind = "page"])]
    /\ UNCHANGED <<revision, now, datesCache, lastCommit, vin, vout, fin, fout, nodeEnv, client>>

\* GET /api/crimes?lat=&lng=&date=
CrimesRequest(r) ==
    /\ req[r].pc = "idle"
    /\ \E lat \in LatInputs, lng \in LngInputs, date \in DateInputs :
          req' = [req EXCEPT ![r] = CrimesEntry(@, lat, lng, date)]
    /\ UNCHANGED <<revision, now, datesCache, lastCommit, vin, vout, fin, fout, nodeEnv, client>>

\* getAvailableDates: `await fetch(...)` settles
GadFetchSettles(r) ==
    /\ req[r].pc = "gadFetch"
    /\ \E outcome \in FetchOutcomes :
          req' = [req EXCEPT ![r] =
                    IF outcome = "ok" THEN [@ EXCEPT !.pc = "gadJson"]
                    ELSE GadFailed(@)]
    /\ UNCHANGED <<revision, now, datesCache, lastCommit, vin, vout, fin, fout, nodeEnv, client>>

\* getAvailableDates: `await response.json()` resolves; the cache is replaced
GadJsonResolves(r) ==
    /\ req[r].pc = "gadJson"
    /\ \E dates \in DatesBodies :
          LET latestDate == LatestDate(dates)
          IN /\ datesCache' = RefreshedCache(datesCache, latestDate, req[r].gadNow)
             /\ lastCommit' = <<latestDate, Num(req[r].gadNow)>>
             /\ req' = [req EXCEPT ![r] =
                          AfterGad([@ EXCEPT !.gad = "refreshed",
                                            !.firstDate = IF HasEntries(dates)
                                                          THEN dates.items[1].date
                                                          ELSE JsNull],
                                   [outcome |-> "return", value |-> latestDate])]
    /\ UNCHANGED <<revision, now, vin, vout, fin, fout, nodeEnv, client>>

\* getAvailableDates: `await response.json()` rejects (the body is no JSON)
GadJsonRejects(r) ==
    /\ req[r].pc = "gadJson"
    /\ req' = [req EXCEPT ![r] = GadFailed(@)]
    /\ UNCHANGED <<revision, now, datesCache, lastCommit, vin, vout, fin, fout, nodeEnv, client>>

\* /api/crimes: `await fetch(ukApiUrl, ...)` settles
CrimesFetchSettles(r) ==
    /\ req[r].pc = "crimesFetch"
    /\ \E outcome \in FetchOutcomes :
          req' = [req EXCEPT ![r] =
                    IF outcome = "ok" THEN [ForgetGad(@) EXCEPT !.pc = "crimesJson"]
                    ELSE IF outcome = "http_error"
                    THEN CrimesCatch(ForgetGad(@), ErrorMessage("crimes_status"))
                    ELSE CrimesCatch(ForgetGad(@), ErrorMessage(outcome))]
    /\ UNCHANGED <<revision, now, datesCache, lastCommit, vin, vout, fin, fout, nodeEnv, client>>

\* /api/crimes: `await response.json()` resolves
CrimesJsonResolves(r) ==
    /\ req[r].pc = "crimesJson"
    /\ \E crimes \in CrimesBodies : req' = [req EXCEPT ![r] = CrimesSuccess(@, crimes)]
    /\ UNCHANGED <<revision, now, datesCache, lastCommit, vin, vout, fin, fout, nodeEnv, client>>

\* /api/crimes: `await response.json()` rejects
CrimesJsonRejects(r) ==
    /\ req[r].pc = "crimesJson"
    /\ req' = [req EXCEPT ![r] = CrimesCatch(@, ErrorMessage("invalid_json"))]
    /\ UNCHANGED <<revision, now, datesCache, lastCommit, vin, vout, fin, fout, nodeEnv, client>>

\* GET /api/dates up to `await fetch(...)`
ApiDatesRequest(r) ==
    /\ req[r].pc = "idle"
    /\ req' = [req EXCEPT ![r] =
                 IssueFetch([@ EXCEPT !.kind = "dates", !.pc = "datesFetch"], "dates")]
    /\ UNCHANGED <<revision, now, datesCache, lastCommit, vin, vout, fin, fout, nodeEnv, client>>

\* /api/dates: `await fetch(...)` settles
ApiDatesFetchSettles(r) ==
    /\ req[r].pc = "datesFetch"
    /\ \E outcome \in FetchOutcomes :
          req' = [req EXCEPT ![r] =
                    IF outcome = "ok" THEN [@ EXCEPT !.pc = "datesJson"]
                    ELSE ApiDatesCatch(@)]
    /\ UNCHANGED <<revision, now, datesCache, lastCommit, vin, vout, fin, fout, nodeEnv, client>>

\* /api/dates: `await response.json()` settles
ApiDatesJsonSettles(r) ==
    /\ req[r].pc = "datesJson"
    /\ \/ \E dates \in DatesBodies :
             req' = [req EXCEPT ![r] = ApiDatesSuccess(revision, @, dates)]
       \/ req' = [req EXCEPT ![r] = ApiDatesCatch(@)]
    /\ datesCache' = ApiDatesCache(datesCache)
    /\ UNCHANGED <<revision, now, lastCommit, vin, vout, fin, fout, nodeEnv, client>>

\* GET /api/forces up to `await fetch(...)`
ForcesRequest(r) ==
    /\ req[r].pc = "idle"
    /\ req' = [req EXCEPT ![r] =
                 IssueFetch([@ EXCEPT !.kind = "forces", !.pc = "forcesFetch"], "forces")]
    /\ UNCHANGED <<revision, now, datesCache, lastCommit, vin, vout, fin, fout, nodeEnv, client>>

\* /api/forces: `await fetch(...)` settles
ForcesFetchSettles(r) ==
    /\ req[r].pc = "forcesFetch"
    /\ \E outcome \in FetchOutcomes :
          req' = [req EXCEPT ![r] =
                    IF outcome = "ok" THEN [@ EXCEPT !.pc = "forcesJson"]
                    ELSE Respond(@, 500, FALSE, "Unable to fetch police forces",
                                 JsUndefined)]
    /\ UNCHANGED <<revision, now, datesCache, lastCommit, vin, vout, fin, fout, nodeEnv, client>>

\* /api/forces: `await response.json()` settles
ForcesJsonSettles(r) ==
    /\ req[r].pc = "forcesJson"
    /\ \/ \E forces \in ForcesBodies :
             req' = [req EXCEPT ![r] = Respond(@, 200, TRUE, "", forces.items)]
       \/ req' = [req EXCEPT ![r] =
                    Respond(@, 500, FALSE, "Unable to fetch police forces", JsUndefined)]
    /\ UNCHANGED <<revision, now, datesCache, lastCommit, vin, vout, fin, fout, nodeEnv, client>>

\* GET /api/search?q=
SearchRequest(r) ==
    /\ req[r].pc = "idle"
    /\ \E q \in SearchInputs : req' = [req EXCEPT ![r] = Search(@, q)]
    /\ UNCHANGED <<revision, now, datesCache, lastCommit, vin, vout, fin, fout, nodeEnv, client>>

\* POST /api/contact (src/server.js has no such route)
ContactRequest(r) ==
    /\ req[r].pc = "idle"
    /\ revision = "part_001"
    /\ \E name \in ContactTexts, email \in ContactEmails,
          subject \in ContactTexts, message \in ContactTexts :
          req' = [req EXCEPT ![r] = Contact(@, name, email, subject, message)]
    /\ UNCHANGED <<revision, now, datesCache, lastCommit, vin, vout, fin, fout, nodeEnv, client>>

\* the response is out; the slot serves the next request
Recycle(r) ==
    /\ req[r].pc = "done"
    /\ req' = [req EXCEPT ![r] = IdleReq]
    /\ UNCHANGED <<revision, now, datesCache, lastCommit, vin, vout, fin, fout, nodeEnv, client>>

\* one run of handler code for the request in slot r
Serve(r) ==
    \/ PageRequest(r)
    \/ CrimesRequest(r)
    \/ GadFetchSettles(r)
    \/ GadJsonResolves(r)
    \/ GadJsonRejects(r)
    \/ CrimesFetchSettles(r)
    \/ CrimesJsonResolves(r)
    \/ CrimesJsonRejects(r)
    \/ ApiDatesRequest(r)
    \/ ApiDatesFetchSettles(r)
    \/ ApiDatesJsonSettles(r)
    \/ ForcesRequest(r)
    \/ ForcesFetchSettles(r)
    \/ ForcesJsonSettles(r)
    \/ SearchRequest(r)
    \/ ContactRequest(r)
    \/ Recycle(r)

Next ==
    \/ Advance
    \/ \E r \in Reqs : Serve(r)

Spec == Init /\ [][Next]_vars

\* an await of request r settles: fetch is given a timeout (10 s for the dates,
\* 15 s for the crimes), so each await of these two calls ends
Settle(r) ==
    \/ GadFetchSettles(r)
    \/ GadJsonResolves(r)
    \/ GadJsonRejects(r)
    \/ CrimesFetchSettles(r)
    \/ CrimesJsonResolves(r)
    \/ CrimesJsonRejects(r)

\* the server with its requests arriving one after another, and with what the
\* timeouts guarantee stated as fairness
NextSerial ==
    \/ Advance
    \/ Serve("r1")

SpecSerial == Init /\ [][NextSerial]_vars /\ WF_vars(Settle("r1"))

-----------------------------------------------------------------------------
(* validateCoordinates on its own, over a range of argument texts           *)

Alphabet == {"0", "1", "9", "-", ".", "e", " ", "a"}

CoordTexts ==
    {<<>>} \cup { <<a>> : a \in Alphabet } \cup { <<a, b>> : a, b \in Alphabet }
    \cup { <<"I", "n", "f", "i", "n", "i", "t", "y">>,
           <<"-", "I", "n", "f", "i", "n", "i", "t", "y">>,
           <<"i", "n", "f", "i", "n", "i", "t", "y">>,
           <<"1", "e", "9", "9", "9">>, <<"1", ".", "8", "e", "3", "0", "8">>,
           <<"1", ".", "7", "e", "3", "0", "8">>, <<"N", "a", "N">>,
           <<"9", "0", ".", "0">>, <<"9", "0", ".", "0", "1">>, <<"-", "9", "0">>,
           <<"-", "9", "1">>, <<"9", "e", "1">>, <<"1", "e", "2">>,
           <<"9", "0", "0", "e", "-", "1">>, <<"1", "8", "0">>, <<"1", "8", "1">>,
           <<"-", "1", "8", "0">>, <<"-", "1", "8", "0", ".", "5">>,
           <<"5", "1", ".", "5", "0", "7", "4">>, <<"-", "0", ".", "1", "2", "7", "8">>,
           <<"1", "2", "a", "b", "c">>, <<" ", "4", "5">>, <<"+", "9", "0">> }

InitValidate ==
    /\ revision \in {"part_001", "server.js"}
    /\ now = Tick
    /\ datesCache = InitialCache
    /\ req = [r \in Reqs |-> IdleReq]
    /\ lastCommit = <<JsNull, JsNull>>
    /\ vin \in [lat : CoordTexts, lng : CoordTexts, done : {FALSE}]
    /\ vout = NoValidation
    /\ fin = NoInput
    /\ fout = NoOutput
    /\ nodeEnv = Str("production")
    /\ client = NoClient

\* validateCoordinates(lat, lng) is called and returns
Validate ==
    /\ ~vin.done
    /\ vout' = validateCoordinates(revision, vin.lat, vin.lng)
    /\ vin' = [vin EXCEPT !.done = TRUE]
    /\ UNCHANGED <<revision, now, datesCache, req, lastCommit, fin, fout, nodeEnv, client>>

NextValidate == Validate

SpecValidate == InitValidate /\ [][NextValidate]_vars

-----------------------------------------------------------------------------
(* processCrimeCategories and calculateBounds on their own, over crime lists *)

\* the longest crime list tried
MaxCrimes == 3

CrimeCategories ==
    { JsUndefined, Str(""), Str("burglary"), Str("robbery"), Str("constructor") }

CrimeLocations ==
    { JsUndefined,
      Location(Txt(<<"5", "1", ".", "5">>), Txt(<<"-", "0", ".", "1">>)),
      Location(Txt(<<"5", "2">>), Txt(<<"-", "2">>)),
      Location(Txt(<<"5", "0", ".", "7">>), Txt(<<"1", ".", "5">>)),
      Location(Txt(<<"a", "b", "c">>), Txt(<<"1">>)),
      Location(JsUndefined, Txt(<<"1">>)),
      Location(Txt(<<"5", "2">>), Txt(<<>>)) }

CrimeRecords ==
    { Crime(c, Location(Txt(<<"5", "2">>), Txt(<<"-", "2">>))) : c \in CrimeCategories }
    \cup { Crime(Str("burglary"), l) : l \in CrimeLocations }
    \cup { JsNull }

CrimeLists == UNION { [1..n -> CrimeRecords] : n \in 0..MaxCrimes }

NotCalled == [threw |-> FALSE, value |-> [type |-> "pending"]]

InitCrimeList ==
    /\ revision \in {"part_001", "server.js"}
    /\ now = Tick
    /\ datesCache = InitialCache
    /\ req = [r \in Reqs |-> IdleReq]
    /\ lastCommit = <<JsNull, JsNull>>
    /\ vin = NotApplied
    /\ vout = NoValidation
    /\ fin \in { [fn |-> "crimes", crimes |-> [type |-> "array", items |-> l]] :
                    l \in CrimeLists }
    /\ fout = [fn |-> "crimes", categories |-> NotCalled, bounds |-> NotCalled]
    /\ nodeEnv = Str("production")
    /\ client = NoClient

\* processCrimeCategories(crimes) is called and returns or throws
Categorise ==
    /\ fout.categories = NotCalled
    /\ fout' = [fout EXCEPT !.categories = processCrimeCategories(fin.crimes)]
    /\ UNCHANGED <<revision, now, datesCache, req, lastCommit, vin, vout, fin, nodeEnv, client>>

\* calculateBounds(crimes) is called and returns
Bound ==
    /\ fout.bounds = NotCalled
    /\ fout' = [fout EXCEPT !.bounds = Returned(calculateBounds(fin.crimes))]
    /\ UNCHANGED <<revision, now, datesCache, req, lastCommit, vin, vout, fin, nodeEnv, client>>

\* a /api/crimes request with the default coordinates and a resolved date, at
\* `await response.json()`
AwaitingCrimes ==
    [IdleReq EXCEPT !.kind = "crimes",
                    !.pc = "crimesJson",
                    !.validation = validateCoordinates(revision, DefaultLat, DefaultLng),
                    !.queryDate = Str(FallbackDate),
                    !.sent = [dates |-> 0, crimes |-> 1, forces |-> 0]]

\* the handler of /api/crimes receives the list as the upstream body and answers
Answer ==
    /\ req["r1"].pc = "idle"
    /\ req' = [req EXCEPT !["r1"] = CrimesSuccess(AwaitingCrimes, fin.crimes)]
    /\ UNCHANGED <<revision, now, datesCache, lastCommit, vin, vout, fin, fout, nodeEnv, client>>

NextCrimeList == Categorise \/ Bound \/ Answer

SpecCrimeList == InitCrimeList /\ [][NextCrimeList]_vars

-----------------------------------------------------------------------------
(* /api/contact on its own, over request bodies                             *)

Repeat(c, n) == [i \in 1..n |-> c]

\* a text of n characters whose last two are < and >
LongText(n) == Repeat("x", n - 2) \o <<"<", ">">>

BodyNames ==
    { Absent, Param(<<>>), Param(<<"<", "b", ">", "A", "n", "n">>),
      Param(LongText(MaxNameLength + 1)) }

BodyEmails ==
    { Absent, Param(<<>>),
      Param(<<"a", "@", "b", ".", "c">>), Param(<<"a", "@", "b", ".", "c", ".", "d">>),
      Param(<<"a", "@", "b">>), Param(<<"a", ".", "b", "@", "c">>),
      Param(<<"a", " ", "b", "@", "c", ".", "d">>), Param(<<"a", "@", "b", ".", "c", " ">>),
      Param(<<"a", "@", "@", "b", ".", "c">>), Param(<<"a", "@", "b", "@", "c", ".", "d">>),
      Param(<<"@", "b", ".", "c">>), Param(<<"a", "@", ".", "c">>),
      Param(<<"a", "@", "b", ".">>),
      Param(<<"a", "@", "b", ".", "c">> \o Repeat("d", MaxEmailLength)),
      Param(<<"a", "@">> \o Repeat("b", MaxEmailLength - 3) \o <<".", "c", "d">>) }

BodySubjects ==
    { Absent, Param(<<"h", "i">>), Param(LongText(MaxSubjectLength + 1)) }

BodyMessages ==
    { Absent, Param(<<"a", "<", "b">>), Param(LongText(MaxMessageLength + 1)) }

InitContact ==
    /\ revision = "part_001"
    /\ now = Tick
    /\ datesCache = InitialCache
    /\ req = [r \in Reqs |-> IdleReq]
    /\ lastCommit = <<JsNull, JsNull>>
    /\ vin = NotApplied
    /\ vout = NoValidation
    /\ fin \in [fn : {"contact"}, name : BodyNames, email : BodyEmails,
                 subject : BodySubjects, message : BodyMessages]
    /\ fout = NoOutput
    /\ nodeEnv = Str("production")
    /\ client = NoClient

\* the body is posted to /api/contact and answered
Submit ==
    /\ req["r1"].pc = "idle"
    /\ req' = [req EXCEPT !["r1"] = Contact(@, fin.name, fin.email, fin.subject, fin.message)]
    /\ UNCHANGED <<revision, now, datesCache, lastCommit, vin, vout, fin, fout, nodeEnv, client>>

NextContact == Submit

SpecContact == InitContact /\ [][NextContact]_vars

-----------------------------------------------------------------------------
(* /api/search on its own, over queries                                     *)

\* the longest query tried
MaxQueryLength == 4

QueryLetters == {"l", "L", "o", "O", "n", "N", "e", "d"}

Queries ==
    { Absent } \cup { Param(t) : t \in UNION { [1..n -> QueryLetters] : n \in 0..MaxQueryLength } }

InitSearch ==
    /\ revision \in {"part_001", "server.js"}
    /\ now = Tick
    /\ datesCache = InitialCache
    /\ req = [r \in Reqs |-> IdleReq]
    /\ lastCommit = <<JsNull, JsNull>>
    /\ vin = NotApplied
    /\ vout = NoValidation
    /\ fin \in [fn : {"search"}, q : Queries]
    /\ fout = NoOutput
    /\ nodeEnv = Str("production")
    /\ client = NoClient

\* GET /api/search?q= is asked and answered
Ask ==
    /\ req["r1"].pc = "idle"
    /\ req' = [req EXCEPT !["r1"] = Search(@, fin.q)]
    /\ UNCHANGED <<revision, now, datesCache, lastCommit, vin, vout, fin, fout, nodeEnv, client>>

NextSearch == Ask

SpecSearch == InitSearch /\ [][NextSearch]_vars

-----------------------------------------------------------------------------
(* /api/dates on one upstream answer                                        *)

MaxDates == 13

\* months as upstream names them, most recent first
Months ==
    << "2025-08", "2025-07", "2025-06", "2025-05", "2025-04", "2025-03",
       "2025-02", "2025-01", "2024-12", "2024-11", "2024-10", "2024-09",
       "2024-08", "2024-07", "2024-06", "2024-05", "2024-04", "2024-03" >>

\* n months starting at the k-th, in upstream order
MonthsFrom(k, n) == [i \in 1..n |-> [date |-> Str(Months[k + i - 1])]]

Reverse(s) == [i \in 1..Len(s) |-> s[Len(s) + 1 - i]]

\* the same list whose first entry carries no date
WithoutFirstDate(s) == [i \in 1..Len(s) |-> IF i = 1 THEN [date |-> JsUndefined] ELSE s[i]]

DateLists ==
    LET descending == { MonthsFrom(k, n) : k \in 1..4, n \in 0..MaxDates }
    IN descending
       \cup { Reverse(s) : s \in descending }
       \cup { WithoutFirstDate(s) : s \in descending }

\* how the upstream call ends: a parsed list, or one of the failures
DatesAnswers ==
    { [fn |-> "dates", outcome |-> "ok", dates |-> [type |-> "array", items |-> l]] :
         l \in DateLists }
    \cup { [fn |-> "dates", outcome |-> o, dates |-> JsNull] :
              o \in (FetchOutcomes \ {"ok"}) \cup {"invalid_json"} }

\* an entry written by an earlier getAvailableDates call, still fresh
WarmCache == [data |-> Str("2025-07"), timestamp |-> Num(0), ttl |-> TTL]

InitDates ==
    /\ revision \in {"part_001", "server.js"}
    /\ now = Tick
    /\ datesCache \in {InitialCache, WarmCache}
    /\ req = [r \in Reqs |-> IdleReq]
    /\ lastCommit = <<JsNull, JsNull>>
    /\ vin = NotApplied
    /\ vout = NoValidation
    /\ fin \in DatesAnswers
    /\ fout = NoOutput
    /\ nodeEnv = Str("production")
    /\ client = NoClient

\* /api/dates: `await fetch(...)` settles as the upstream answer says
DatesFetchAnswered ==
    /\ req["r1"].pc = "datesFetch"
    /\ req' = [req EXCEPT !["r1"] =
                 IF fin.outcome \in {"ok", "invalid_json"}
                 THEN [@ EXCEPT !.pc = "datesJson"]
                 ELSE ApiDatesCatch(@)]
    /\ UNCHANGED <<revision, now, datesCache, lastCommit, vin, vout, fin, fout, nodeEnv, client>>

\* /api/dates: `await response.json()` settles as the upstream answer says
DatesJsonAnswered ==
    /\ req["r1"].pc = "datesJson"
    /\ req' = [req EXCEPT !["r1"] =
                 IF fin.outcome = "ok"
                 THEN ApiDatesSuccess(revision, @, fin.dates)
                 ELSE ApiDatesCatch(@)]
    /\ datesCache' = ApiDatesCache(datesCache)
    /\ UNCHANGED <<revision, now, lastCommit, vin, vout, fin, fout, nodeEnv, client>>

NextDates == ApiDatesRequest("r1") \/ DatesFetchAnswered \/ DatesJsonAnswered

SpecDates == InitDates /\ [][NextDates]_vars

-----------------------------------------------------------------------------
(* /city/:cityname                                                          *)

\* one row of the city table; the coordinates as the source writes them
City(name, lat, lng, region) ==
    [type |-> "object", name |-> Str(name), lat |-> Str(lat), lng |-> Str(lng),
     region |-> Str(region)]

\* the keys of cityData and their rows, in the order of the source
CityRows ==
    << <<<<"l", "o", "n", "d", "o", "n">>,
          City("London", "51.5074", "-0.1278", "Greater London")>>,
       <<<<"m", "a", "n", "c", "h", "e", "s", "t", "e", "r">>,
          City("Manchester", "53.4808", "-2.2426", "Greater Manchester")>>,
       <<<<"b", "i", "r", "m", "i", "n", "g", "h", "a", "m">>,
          City("Birmingham", "52.4862", "-1.8904", "West Midlands")>>,
       <<<<"l", "e", "e", "d", "s">>,
          City("Leeds", "53.8008", "-1.5491", "West Yorkshire")>>,
       <<<<"l", "i", "v", "e", "r", "p", "o", "o", "l">>,
          City("Liverpool", "53.4084", "-2.9916", "Merseyside")>>,
       <<<<"s", "h", "e", "f", "f", "i", "e", "l", "d">>,
          City("Sheffield", "53.3811", "-1.4701", "South Yorkshire")>>,
       <<<<"b", "r", "i", "s", "t", "o", "l">>,
          City("Bristol", "51.4545", "-2.5879", "South West")>>,
       <<<<"n", "e", "w", "c", "a", "s", "t", "l", "e">>,
          City("Newcastle", "54.9783", "-1.6178", "Tyne and Wear")>>,
       <<<<"n", "o", "t", "t", "i", "n", "g", "h", "a", "m">>,
          City("Nottingham", "52.9548", "-1.1581", "East Midlands")>>,
       <<<<"p", "l", "y", "m", "o", "u", "t", "h">>,
          City("Plymouth", "50.3755", "-4.1427", "Devon")>>,
       <<<<"s", "o", "u", "t", "h", "a", "m", "p", "t", "o", "n">>,
          City("Southampton", "50.9097", "-1.4044", "Hampshire")>>,
       <<<<"p", "o", "r", "t", "s", "m", "o", "u", "t", "h">>,
          City("Portsmouth", "50.8198", "-1.0880", "Hampshire")>>,
       <<<<"l", "e", "i", "c", "e", "s", "t", "e", "r">>,
          City("Leicester", "52.6369", "-1.1398", "Leicestershire")>>,
       <<<<"c", "o", "v", "e", "n", "t", "r", "y">>,
          City("Coventry", "52.4068", "-1.5197", "West Midlands")>>,
       <<<<"c", "a", "r", "d", "i", "f", "f">>,
          City("Cardiff", "51.4816", "-3.1791", "Wales")>>,
       <<<<"s", "w", "a", "n", "s", "e", "a">>,
          City("Swansea", "51.6214", "-3.9436", "Wales")>>,
       <<<<"b", "r", "a", "d", "f", "o", "r", "d">>,
          City("Bradford", "53.7960", "-1.7594", "West Yorkshire")>>,
       <<<<"b", "r", "i", "g", "h", "t", "o", "n">>,
          City("Brighton & Hove", "50.8225", "-0.1372", "East Sussex")>>,
       <<<<"o", "x", "f", "o", "r", "d">>,
          City("Oxford", "51.7520", "-1.2577", "Oxfordshire")>>,
       <<<<"c", "a", "m", "b", "r", "i", "d", "g", "e">>,
          City("Cambridge", "52.2053", "0.1218", "Cambridgeshire")>>,
       <<<<"e", "x", "e", "t", "e", "r">>,
          City("Exeter", "50.7256", "-3.5269", "Devon")>>,
       <<<<"y", "o", "r", "k">>,
          City("York", "53.9600", "-1.0873", "North Yorkshire")>>,
       <<<<"b", "a", "t", "h">>,
          City("Bath", "51.3811", "-2.3590", "Somerset")>>,
       <<<<"n", "o", "r", "w", "i", "c", "h">>,
          City("Norwich", "52.6309", "1.2974", "Norfolk")>>,
       <<<<"r", "e", "a", "d", "i", "n", "g">>,
          City("Reading", "51.4543", "-0.9781", "Berkshire")>>,
       <<<<"d", "e", "r", "b", "y">>,
          City("Derby", "52.9226", "-1.4746", "Derbyshire")>>,
       <<<<"s", "t", "o", "k", "e">>,
          City("Stoke-on-Trent", "53.0027", "-2.1794", "Staffordshire")>>,
       <<<<"w", "o", "l", "v", "e", "r", "h", "a", "m", "p", "t", "o", "n">>,
          City("Wolverhampton", "52.5865", "-2.1288", "West Midlands")>>,
       <<<<"m", "i", "l", "t", "o", "n", "-", "k", "e", "y", "n", "e", "s">>,
          City("Milton Keynes", "52.0406", "-0.7594", "Buckinghamshire")>>,
       <<<<"n", "e", "w", "p", "o", "r", "t">>,
          City("Newport", "51.5842", "-2.9977", "Wales")>> >>

citySlugs == { CityRows[i][1] : i \in 1..Len(CityRows) }

\* the own properties of the object literal cityData
cityData == [slug \in citySlugs |-> CityRows[CHOOSE i \in 1..Len(CityRows) : CityRows[i][1] = slug][2]]

\* members cityData inherits from Object.prototype: functions, and the
\* accessor __proto__ that yields Object.prototype itself
InheritedFunctions ==
    { <<"c", "o", "n", "s", "t", "r", "u", "c", "t", "o", "r">>,
      <<"t", "o", "S", "t", "r", "i", "n", "g">>,
      <<"v", "a", "l", "u", "e", "O", "f">>,
      <<"h", "a", "s", "O", "w", "n", "P", "r", "o", "p", "e", "r", "t", "y">> }

ProtoAccessor == <<"_", "_", "p", "r", "o", "t", "o", "_", "_">>

\* Function.prototype.name of an inherited member: Object for the constructor,
\* its own name for a method
FunctionName(slug) ==
    CASE slug = <<"c", "o", "n", "s", "t", "r", "u", "c", "t", "o", "r">> -> "Object"
      [] slug = <<"t", "o", "S", "t", "r", "i", "n", "g">> -> "toString"
      [] slug = <<"v", "a", "l", "u", "e", "O", "f">> -> "valueOf"
      [] OTHER -> "hasOwnProperty"

\* a function read as a city: of the four fields it has only `name`
FunctionAsCity(slug) ==
    [type |-> "function", name |-> Str(FunctionName(slug)), lat |-> JsUndefined,
     lng |-> JsUndefined, region |-> JsUndefined]

ObjectPrototypeAsCity ==
    [type |-> "object", name |-> JsUndefined, lat |-> JsUndefined, lng |-> JsUndefined,
     region |-> JsUndefined]

\* cityData[slug] after slug = (req.params.cityname || '').toLowerCase()
CityLookup(typed) ==
    LET slug == toLowerCase(typed)
    IN IF slug \in citySlugs THEN cityData[slug]
       ELSE IF slug \in InheritedFunctions THEN FunctionAsCity(slug)
       ELSE IF slug = ProtoAccessor THEN ObjectPrototypeAsCity
       ELSE JsUndefined

\* app.get('/city/:cityname')
CityPage(rec, typed) ==
    LET city == CityLookup(typed)
    IN IF ~Truthy(city)
       THEN Respond([rec EXCEPT !.kind = "city"], 404, FALSE, "City not found",
                    [view |-> "error"])
       ELSE Respond([rec EXCEPT !.kind = "city"], 200, TRUE, "",
                    [view |-> "city", cityName |-> city.name, cityLat |-> city.lat,
                     cityLng |-> city.lng, cityRegion |-> city.region])

\* a slug typed in capitals, and with a capital first letter
InCapitals(text) ==
    [i \in 1..Len(text) |->
        IF \E k \in 1..26 : LowerCase[k] = text[i]
        THEN UpperCase[CHOOSE k \in 1..26 : LowerCase[k] = text[i]]
        ELSE text[i]]

Capitalised(text) == [i \in 1..Len(text) |-> IF i = 1 THEN InCapitals(text)[1] ELSE text[i]]

UnknownSlugs ==
    { <<"a", "t", "l", "a", "n", "t", "i", "s">>,
      <<"l", "o", "n", "d", "o", "n", "x">>,
      <<"l", "o", "n", "d", "o">>,
      <<"y", "o", "r", "k", " ">> }

\* what may stand in the place of :cityname (never empty: the route needs one)
CitySlugInputs ==
    LET lower == citySlugs \cup UnknownSlugs \cup InheritedFunctions \cup {ProtoAccessor}
    IN lower \cup { InCapitals(s) : s \in lower } \cup { Capitalised(s) : s \in lower }

InitCity ==
    /\ revision = "part_001"
    /\ now = Tick
    /\ datesCache = InitialCache
    /\ req = [r \in Reqs |-> IdleReq]
    /\ lastCommit = <<JsNull, JsNull>>
    /\ vin = NotApplied
    /\ vout = NoValidation
    /\ fin \in [fn : {"city"}, slug : CitySlugInputs]
    /\ fout = NoOutput
    /\ nodeEnv = Str("production")
    /\ client = NoClient

\* GET /city/:cityname is asked and answered
VisitCity ==
    /\ req["r1"].pc = "idle"
    /\ req' = [req EXCEPT !["r1"] = CityPage(@, fin.slug)]
    /\ UNCHANGED <<revision, now, datesCache, lastCommit, vin, vout, fin, fout, nodeEnv, client>>

NextCity == VisitCity

SpecCity == InitCity /\ [][NextCity]_vars

-----------------------------------------------------------------------------
(* /api/crimes failing twice under one NODE_ENV                             *)

\* process.env.NODE_ENV: unset, or what the deployment sets it to
NodeEnvs == { JsUndefined, Str("production"), Str("development"), Str("test") }

\* error texts the catch block may see; several of them share a status code
UpstreamErrorTexts ==
    { ErrorMessage(k) : k \in {"timeout", "crimes_status", "network_error",
                               "invalid_json", "type_error"} }
    \cup { [ErrorMessage("timeout") EXCEPT !.kind = "body_timeout"],
           [ErrorMessage("crimes_status") EXCEPT !.kind = "crimes_status_503"] }

InitFailure ==
    /\ revision \in {"part_001", "server.js"}
    /\ now = Tick
    /\ datesCache = InitialCache
    /\ req = [r \in Reqs |-> IdleReq]
    /\ lastCommit = <<JsNull, JsNull>>
    /\ vin = NotApplied
    /\ vout = NoValidation
    /\ fin \in [fn : {"failures"}, message : [Reqs -> UpstreamErrorTexts]]
    /\ fout = NoOutput
    /\ nodeEnv \in NodeEnvs
    /\ client = NoClient

\* a /api/crimes request fails with its error text and is answered by the catch block
Fail(r) ==
    /\ req[r].pc = "idle"
    /\ req' = [req EXCEPT ![r] = CrimesCatch(AwaitingCrimes, fin.message[r])]
    /\ UNCHANGED <<revision, now, datesCache, lastCommit, vin, vout, fin, fout, nodeEnv, client>>

NextFailure == \E r \in Reqs : Fail(r)

SpecFailure == InitFailure /\ [][NextFailure]_vars

-----------------------------------------------------------------------------
(* The map page: class CrimeMap in one browser tab                          *)

\* map centres: config.mapCenter and places more than 500 m from one another
Places == {"uk", "london"}

\* the calls that may be running at once, and the methods they run
Tasks == {"t1", "t2"}

\* this.currentCrimes: [] after construction, then the crimes loaded for a place
NoCrimes == [at |-> "nowhere"]
CrimesAt(place) == [at |-> place]

IdleCall ==
    [ op |-> "none",       \* the method that awaits loadCrimes
      pc |-> "idle",       \* idle, fetch (await fetch), json (await response.json())
      at |-> "nowhere" ]   \* the lat, lng it passed to loadCrimes

\* history: the call that resumed last
NoCall ==
    [ op |-> "none",
      at |-> "nowhere",
      result |-> "none",   \* what loadCrimes gave it: data, null, rejected
      skipped |-> FALSE ]  \* loadCrimes returned at its first line

\* history: the handler that ran last and the onDataLoaded calls it made
Run(handler) == [handler |-> handler, notified |-> 0]
Begin(c, handler) == [c EXCEPT !.run = Run(handler)]

\* new CrimeMap(config): the constructor and createMap
NewCrimeMap ==
    [ page |-> "map",
      center |-> "uk",                  \* this.map.getCenter()
      moveend |-> FALSE,                \* a moveend event is queued
      isLoading |-> FALSE,
      currentCrimes |-> NoCrimes,
      lastUpdateLocation |-> "uk",
      hasMovedSinceUpdate |-> FALSE,
      updateButton |-> "none",          \* style.display of #update-location-btn
      notification |-> "",              \* text of #map-notification
      inFlight |-> 0,                   \* history: /api/crimes requests not yet answered
      last |-> NoCall,
      run |-> Run("constructor"),
      call |-> [t \in Tasks |-> IdleCall] ]

UpdatedText == "Location updated successfully!"
UpdateFailedText == "Failed to update location. Please try again."
LoadFailedText == "Failed to load crime data. Please try again."

hideUpdateButton(c) == [c EXCEPT !.updateButton = "none"]

showUpdateButton(c) == IF c.hasMovedSinceUpdate THEN [c EXCEPT !.updateButton = "flex"] ELSE c

showNotification(c, message) == [c EXCEPT !.notification = message]

\* this.lastUpdateLocation.distanceTo(currentCenter) > 500
onMapMove(c) ==
    IF c.lastUpdateLocation # c.center
    THEN showUpdateButton([c EXCEPT !.hasMovedSinceUpdate = TRUE])
    ELSE c

\* this.map.setView(...) or a drag: the centre changes and moveend will fire
setView(c, place) == [c EXCEPT !.center = place, !.moveend = TRUE]

\* the three lines every caller runs once loadCrimes has returned
MarkUpdated(c, place) ==
    hideUpdateButton([c EXCEPT !.lastUpdateLocation = place,
                               !.hasMovedSinceUpdate = FALSE])

\* the caller resumes after `await this.loadCrimes(...)` with its result
AfterLoadCrimes(c, t, result) ==
    LET op == c.call[t].op
        place == c.call[t].at
        c1 == [c EXCEPT !.call[t] = IdleCall,
                        !.last = [op |-> op, at |-> place, result |-> result,
                                  skipped |-> c.call[t].pc = "idle"]]
    IN IF result = "rejected"
       THEN IF op = "updateCurrentLocation" THEN showNotification(c1, UpdateFailedText)
            ELSE c1
       ELSE CASE op = "updateCurrentLocation" ->
                    showNotification(MarkUpdated(c1, place), UpdatedText)
              [] op \in {"goToLocation", "goToUserLocation", "loadCrimesForCurrentView"} ->
                    MarkUpdated(c1, place)
              [] OTHER -> c1

\* faulty variant: loadCrimes without its guard on isLoading
loadCrimesUnguarded(c, t) ==
    [c EXCEPT !.isLoading = TRUE, !.inFlight = @ + 1, !.call[t].pc = "fetch"]

\* loadCrimes up to `await fetch(...)`
loadCrimes(c, t) ==
    IF c.isLoading
    THEN AfterLoadCrimes(c, t, "null")
    ELSE [c EXCEPT !.isLoading = TRUE, !.inFlight = @ + 1, !.call[t].pc = "fetch"]

\* loadCrimes: the branch `if (data.success)`
LoadSuccess(c, t) ==
    [c EXCEPT !.currentCrimes = CrimesAt(c.call[t].at), !.run.notified = @ + 1]

\* loadCrimes: the catch block
LoadCatch(c, t) ==
    [showNotification(c, LoadFailedText) EXCEPT !.run.notified = @ + 1]

\* loadCrimes: the finally block
LoadFinally(c) == [c EXCEPT !.isLoading = FALSE]

\* what the two awaits of loadCrimes may settle to
LoadOutcomes == {"success", "server_error", "invalid_json"}

\* loadCrimes from the settling of an await to its return, then its caller
LoadSettled(c, t, outcome) ==
    LET answered == [Begin(c, "settle") EXCEPT !.inFlight = @ - 1]
        tried == IF outcome = "success" THEN LoadSuccess(answered, t)
                 ELSE LoadCatch(answered, t)
    IN AfterLoadCrimes(LoadFinally(tried), t, IF outcome = "success" THEN "data" ELSE "null")

\* a method is called: it notes what it will pass to loadCrimes and calls it
Call(c, t, op, place) ==
    loadCrimes([Begin(c, "call") EXCEPT !.call[t] = [IdleCall EXCEPT !.op = op, !.at = place]], t)

InitMap ==
    /\ revision = "part_001"
    /\ now = Tick
    /\ datesCache = InitialCache
    /\ req = [r \in Reqs |-> IdleReq]
    /\ lastCommit = <<JsNull, JsNull>>
    /\ vin = NotApplied
    /\ vout = NoValidation
    /\ fin = NoInput
    /\ fout = NoOutput
    /\ nodeEnv = Str("production")
    /\ client = NewCrimeMap

\* the user drags the map
Pan ==
    /\ \E place \in Places \ {client.center} : client' = setView(Begin(client, "drag"), place)
    /\ UNCHANGED <<revision, now, datesCache, req, lastCommit, vin, vout, fin, fout, nodeEnv>>

\* the moveend listener runs
MoveEnd ==
    /\ client.moveend
    /\ client' = onMapMove([Begin(client, "moveend") EXCEPT !.moveend = FALSE])
    /\ UNCHANGED <<revision, now, datesCache, req, lastCommit, vin, vout, fin, fout, nodeEnv>>

\* goToLocation(lat, lng) up to its await
GoToLocation(t) ==
    /\ client.call[t].pc = "idle"
    /\ \E place \in Places :
          client' = Call(setView(client, place), t, "goToLocation", place)
    /\ UNCHANGED <<revision, now, datesCache, req, lastCommit, vin, vout, fin, fout, nodeEnv>>

\* goToUserLocation: the position callback up to its await
GoToUserLocation(t) ==
    /\ client.call[t].pc = "idle"
    /\ \E place \in Places :
          client' = Call(setView(client, place), t, "goToUserLocation", place)
    /\ UNCHANGED <<revision, now, datesCache, req, lastCommit, vin, vout, fin, fout, nodeEnv>>

\* updateCurrentLocation up to its await
UpdateCurrentLocation(t) ==
    /\ client.call[t].pc = "idle"
    /\ client' = Call(client, t, "updateCurrentLocation", client.center)
    /\ UNCHANGED <<revision, now, datesCache, req, lastCommit, vin, vout, fin, fout, nodeEnv>>

\* loadCrimesForCurrentView(date) up to its await
LoadCrimesForCurrentView(t) ==
    /\ client.call[t].pc = "idle"
    /\ client' = Call(client, t, "loadCrimesForCurrentView", client.center)
    /\ UNCHANGED <<revision, now, datesCache, req, lastCommit, vin, vout, fin, fout, nodeEnv>>

\* loadCrimes: `await fetch(...)` settles
LoadFetchSettles(t) ==
    /\ client.call[t].pc = "fetch"
    /\ \/ client' = [Begin(client, "settle") EXCEPT !.call[t].pc = "json"]
       \/ client' = LoadSettled(client, t, "network_error")
    /\ UNCHANGED <<revision, now, datesCache, req, lastCommit, vin, vout, fin, fout, nodeEnv>>

\* loadCrimes: `await response.json()` settles
LoadJsonSettles(t) ==
    /\ client.call[t].pc = "json"
    /\ \E outcome \in LoadOutcomes : client' = LoadSettled(client, t, outcome)
    /\ UNCHANGED <<revision, now, datesCache, req, lastCommit, vin, vout, fin, fout, nodeEnv>>

LoadSettles(t) == LoadFetchSettles(t) \/ LoadJsonSettles(t)

NextMap ==
    \/ Pan
    \/ MoveEnd
    \/ \E t \in Tasks :
          \/ GoToLocation(t)
          \/ GoToUserLocation(t)
          \/ UpdateCurrentLocation(t)
          \/ LoadCrimesForCurrentView(t)
          \/ LoadFetchSettles(t)
          \/ LoadJsonSettles(t)

\* every request the page sends is answered or fails
SpecMap == InitMap /\ [][NextMap]_vars /\ \A t \in Tasks : WF_vars(LoadSettles(t))

-----------------------------------------------------------------------------
(* The crime-type filters of the map page                                   *)

\* categories the loaded data may contain
FilterCategories == {"burglary", "robbery", "drugs"}

\* the filter panel after construction: activeFilters = new Set(['all']), the
\* 'All Crimes' checkbox checked and no category checkbox yet
NewFilters ==
    [ page |-> "filters",
      activeFilters |-> {"all"},
      boxes |-> {},            \* values of the category checkboxes in #crime-filters
      checked |-> {"all"},     \* values of the checkboxes that are checked
      changed |-> "none" ]     \* history: checkbox of the change event handled last

\* shouldShowCrime(crime)
shouldShowCrime(c, category) ==
    IF "all" \in c.activeFilters THEN TRUE ELSE category \in c.activeFilters

\* handleFilterChange on the 'all' checkbox
AllChanged(c) ==
    IF "all" \in c.checked
    THEN [c EXCEPT !.activeFilters = {"all"}, !.checked = c.boxes \cup {"all"}]
    ELSE [c EXCEPT !.activeFilters = {}, !.checked = {}]

\* handleFilterChange on a category checkbox
CategoryChanged(c, value) ==
    LET c1 == IF value \in c.checked
              THEN IF "all" \in c.activeFilters
                   THEN [c EXCEPT !.activeFilters = {value}, !.checked = @ \ {"all"}]
                   ELSE [c EXCEPT !.activeFilters = @ \cup {value}]
              ELSE [c EXCEPT !.activeFilters = @ \ {value}]
        allChecked == \A b \in c1.boxes : b \in c1.checked
    IN IF allChecked /\ c1.boxes # {}
       THEN [c1 EXCEPT !.activeFilters = {"all"}, !.checked = c1.boxes \cup {"all"}]
       ELSE IF c1.activeFilters = {}
       THEN [c1 EXCEPT !.activeFilters = {"all"}, !.checked = c1.boxes \cup {"all"}]
       ELSE c1

\* handleFilterChange(checkbox)
handleFilterChange(c, value) ==
    [(IF value = "all" THEN AllChanged(c) ELSE CategoryChanged(c, value))
        EXCEPT !.changed = value]

\* updateFilters(categories): the category checkboxes are rebuilt, each checked
\* when activeFilters has it or has 'all'; activeFilters is put back as it was
updateFilters(c, categories) ==
    [c EXCEPT !.boxes = categories,
              !.checked = (@ \cap {"all"})
                          \cup { b \in categories :
                                    b \in c.activeFilters \/ "all" \in c.activeFilters },
              !.changed = "none"]

InitFilters ==
    /\ revision = "part_001"
    /\ now = Tick
    /\ datesCache = InitialCache
    /\ req = [r \in Reqs |-> IdleReq]
    /\ lastCommit = <<JsNull, JsNull>>
    /\ vin = NotApplied
    /\ vout = NoValidation
    /\ fin = NoInput
    /\ fout = NoOutput
    /\ nodeEnv = Str("production")
    /\ client = NewFilters

\* the user clicks a checkbox: the browser flips it and the change listener runs
ClickFilter ==
    /\ \E value \in client.boxes \cup {"all"} :
          LET flipped == IF value \in client.checked
                         THEN [client EXCEPT !.checked = @ \ {value}]
                         ELSE [client EXCEPT !.checked = @ \cup {value}]
          IN client' = handleFilterChange(flipped, value)
    /\ UNCHANGED <<revision, now, datesCache, req, lastCommit, vin, vout, fin, fout, nodeEnv>>

\* a load succeeded: updateFilters(data.categories || {})
DataLoaded ==
    /\ \E categories \in SUBSET FilterCategories : client' = updateFilters(client, categories)
    /\ UNCHANGED <<revision, now, datesCache, req, lastCommit, vin, vout, fin, fout, nodeEnv>>

NextFilters == ClickFilter \/ DataLoaded

SpecFilters == InitFilters /\ [][NextFilters]_vars

-----------------------------------------------------------------------------
(* The heatmap of the map page                                              *)

\* pending retries of displayHeatmap the model follows at once
MaxRetries == 3

\* heat layers are told apart by a number; 0 stands for null
LayerIds == 1..(MaxRetries + 1)

ViewModes == {"heatmap", "markers", "hybrid"}

\* the map page after construction, the plugin script still loading
NewHeatmap ==
    [ page |-> "heatmap",
      pluginLoaded |-> FALSE,     \* typeof L.heatLayer !== 'undefined'
      viewMode |-> "heatmap",
      hasCrimes |-> FALSE,        \* this.currentCrimes has crimes to show
      heatmapLayer |-> 0,         \* this.heatmapLayer
      attached |-> {},            \* the heat layers that are on the map
      markersOn |-> TRUE,         \* this.crimeMarkers is on the map
      retries |-> 0 ]             \* setTimeout(() => this.displayHeatmap(crimes), 100) pending

\* L.heatLayer(...): a layer that is neither on the map nor referenced
NewLayer(c) == CHOOSE id \in LayerIds : id \notin c.attached \cup {c.heatmapLayer}

\* displayHeatmap(crimes), for crimes with coordinates
displayHeatmap(c) ==
    IF ~c.pluginLoaded
    THEN [c EXCEPT !.retries = @ + 1]
    ELSE [c EXCEPT !.heatmapLayer = NewLayer(c), !.attached = @ \cup {NewLayer(c)}]

\* displayMarkers(crimes)
displayMarkers(c) == [c EXCEPT !.markersOn = TRUE]

\* displayCrimes(crimes); visible: some crimes pass the filters
displayCrimes(c, visible) ==
    LET unheated == IF c.heatmapLayer # 0
                    THEN [c EXCEPT !.attached = @ \ {c.heatmapLayer}, !.heatmapLayer = 0]
                    ELSE c
        cleared == [unheated EXCEPT !.markersOn = FALSE]
    IN IF ~visible THEN cleared
       ELSE CASE cleared.viewMode = "heatmap" -> displayHeatmap(cleared)
              [] cleared.viewMode = "markers" -> displayMarkers(cleared)
              [] OTHER -> displayMarkers(displayHeatmap(cleared))

\* another retry can be followed, should the handler schedule one
CanRetry(c) == c.pluginLoaded \/ c.retries < MaxRetries

InitHeatmap ==
    /\ revision = "part_001"
    /\ now = Tick
    /\ datesCache = InitialCache
    /\ req = [r \in Reqs |-> IdleReq]
    /\ lastCommit = <<JsNull, JsNull>>
    /\ vin = NotApplied
    /\ vout = NoValidation
    /\ fin = NoInput
    /\ fout = NoOutput
    /\ nodeEnv = Str("production")
    /\ client = NewHeatmap

\* the leaflet-heat script has loaded
PluginLoads ==
    /\ ~client.pluginLoaded
    /\ client' = [client EXCEPT !.pluginLoaded = TRUE]
    /\ UNCHANGED <<revision, now, datesCache, req, lastCommit, vin, vout, fin, fout, nodeEnv>>

\* loadCrimes succeeded: this.currentCrimes = data.crimes; displayCrimes(...)
CrimesLoaded ==
    /\ CanRetry(client)
    /\ \E some \in BOOLEAN :
          client' = displayCrimes([client EXCEPT !.hasCrimes = some], some)
    /\ UNCHANGED <<revision, now, datesCache, req, lastCommit, vin, vout, fin, fout, nodeEnv>>

\* handleFilterChange: displayCrimes(this.currentCrimes) under the new filters
FiltersChanged ==
    /\ CanRetry(client)
    /\ \E matching \in BOOLEAN :
          client' = displayCrimes(client, client.hasCrimes /\ matching)
    /\ UNCHANGED <<revision, now, datesCache, req, lastCommit, vin, vout, fin, fout, nodeEnv>>

\* setViewMode(mode)
SetViewMode ==
    /\ CanRetry(client)
    /\ \E mode \in ViewModes :
          client' = displayCrimes([client EXCEPT !.viewMode = mode], client.hasCrimes)
    /\ UNCHANGED <<revision, now, datesCache, req, lastCommit, vin, vout, fin, fout, nodeEnv>>

\* zoomend: adjustHeatmapRadius()
ZoomEnd ==
    /\ CanRetry(client)
    /\ client.heatmapLayer # 0 /\ client.viewMode # "markers"
    /\ client' = displayCrimes(client, client.hasCrimes)
    /\ UNCHANGED <<revision, now, datesCache, req, lastCommit, vin, vout, fin, fout, nodeEnv>>

\* the intensity slider: updateHeatmapIntensity(intensity)
IntensityChanged ==
    /\ CanRetry(client)
    /\ client.heatmapLayer # 0
    /\ client' = displayCrimes(client, client.hasCrimes)
    /\ UNCHANGED <<revision, now, datesCache, req, lastCommit, vin, vout, fin, fout, nodeEnv>>

\* a retry timer fires: this.displayHeatmap(crimes) with the crimes it kept
RetryFires ==
    /\ client.retries > 0
    /\ client' = displayHeatmap([client EXCEPT !.retries = @ - 1])
    /\ UNCHANGED <<revision, now, datesCache, req, lastCommit, vin, vout, fin, fout, nodeEnv>>

NextHeatmap ==
    \/ PluginLoads
    \/ CrimesLoaded
    \/ FiltersChanged
    \/ SetViewMode
    \/ ZoomEnd
    \/ IntensityChanged
    \/ RetryFires

SpecHeatmap == InitHeatmap /\ [][NextHeatmap]_vars

-----------------------------------------------------------------------------
(* The search box of the home page: suggestions                             *)

\* suggestion requests the model follows at once
MaxInFlight == 2

MinSuggestionLength == 2

\* what the user may have in the search box
SearchTexts == { <<>>, <<"l">>, <<"l", "e", "e">>, <<"l", "o", "n">> }

NoSuggestions == [for |-> <<>>, items |-> 0]

\* the page after setupSearchListeners
NewSearchBox ==
    [ page |-> "search",
      value |-> <<>>,          \* searchInput.value
      timers |-> 0,            \* pending timeouts set by the input listener
      inFlight |-> <<>>,       \* queries of the /api/search requests not yet answered
      shown |-> NoSuggestions, \* #search-suggestions: whose suggestions it shows
      handled |-> <<>>,        \* history: the query handleSearchInput ran on last
      issued |-> <<>> ]        \* history: the query of the request issued last

hideSuggestions(c) == [c EXCEPT !.shown = NoSuggestions]

\* showSuggestions(suggestions)
showSuggestions(c, suggestions) ==
    IF suggestions.items = 0 THEN hideSuggestions(c) ELSE [c EXCEPT !.shown = suggestions]

\* the input listener: clearTimeout(searchTimeout); searchTimeout = setTimeout(..., 300)
InputListener(c, text) ==
    [c EXCEPT !.value = text, !.timers = (IF @ > 0 THEN @ - 1 ELSE 0) + 1]

\* handleSearchInput(query) up to `await this.getSuggestions(query)`
handleSearchInput(c, query) ==
    IF Len(query) < MinSuggestionLength
    THEN hideSuggestions([c EXCEPT !.handled = query])
    ELSE [c EXCEPT !.handled = query, !.issued = query, !.inFlight = Append(@, query)]

\* what getSuggestions may return for a query: data.suggestions, or [] when the
\* server has none or the request failed
SuggestionsFor(query) == { [for |-> query, items |-> n] : n \in {0, 1} }

Without(s, i) == [k \in 1..(Len(s) - 1) |-> IF k < i THEN s[k] ELSE s[k + 1]]

InitSearchBox ==
    /\ revision = "part_001"
    /\ now = Tick
    /\ datesCache = InitialCache
    /\ req = [r \in Reqs |-> IdleReq]
    /\ lastCommit = <<JsNull, JsNull>>
    /\ vin = NotApplied
    /\ vout = NoValidation
    /\ fin = NoInput
    /\ fout = NoOutput
    /\ nodeEnv = Str("production")
    /\ client = NewSearchBox

\* the user changes the text: an input event
TypeText ==
    /\ \E text \in SearchTexts \ {client.value} : client' = InputListener(client, text)
    /\ UNCHANGED <<revision, now, datesCache, req, lastCommit, vin, vout, fin, fout, nodeEnv>>

\* a timeout of the input listener fires: this.handleSearchInput(e.target.value)
DebounceFires ==
    /\ client.timers > 0
    /\ Len(client.value) >= MinSuggestionLength => Len(client.inFlight) < MaxInFlight
    /\ client' = handleSearchInput([client EXCEPT !.timers = @ - 1], client.value)
    /\ UNCHANGED <<revision, now, datesCache, req, lastCommit, vin, vout, fin, fout, nodeEnv>>

\* the answer to one of the requests arrives, in any order
SuggestionsArrive ==
    /\ \E i \in 1..Len(client.inFlight) :
          \E suggestions \in SuggestionsFor(client.inFlight[i]) :
             client' = showSuggestions([client EXCEPT !.inFlight = Without(@, i)], suggestions)
    /\ UNCHANGED <<revision, now, datesCache, req, lastCommit, vin, vout, fin, fout, nodeEnv>>

\* a click outside the search box
ClickOutside ==
    /\ client' = hideSuggestions(client)
    /\ UNCHANGED <<revision, now, datesCache, req, lastCommit, vin, vout, fin, fout, nodeEnv>>

NextSearchBox == TypeText \/ DebounceFires \/ SuggestionsArrive \/ ClickOutside

SpecSearchBox == InitSearchBox /\ [][NextSearchBox]_vars

-----------------------------------------------------------------------------
(* Properties                                                               *)

\* a value is present: neither null nor undefined
Present(x) == x.type \notin {"null", "undefined"}

\* the cache holds a value that is younger than its ttl at time t
HoldsFreshValue(cache, t) ==
    /\ Present(cache.data)
    /\ Present(cache.timestamp)
    /\ t - cache.timestamp.v < cache.ttl

\* request r enters getAvailableDates in this step
CallsGad(r) == req[r].cacheReads = 0 /\ req'[r].cacheReads = 1

\* request r's getAvailableDates returns (or throws) in this step
GadReturns(r) == req[r].pc \in {"gadFetch", "gadJson"} /\ req'[r].pc \notin {"gadFetch", "gadJson"}

\* C1: a getAvailableDates call made while the cache holds a value with
\* now - fetchedAt < ttl returns exactly that value, issues no upstream request,
\* throws nothing and leaves the cache as it is; with now - fetchedAt >= ttl, or
\* with no value cached, the call is a miss and issues the refresh request.
C1_CacheHit ==
    [][\A r \in Reqs : CallsGad(r) =>
          IF HoldsFreshValue(datesCache, now)
          THEN /\ req'[r].gad = "hit"
               /\ req'[r].gadResult = datesCache.data
               /\ req'[r].sent.dates = 0
               /\ ~req'[r].gadThrew
               /\ datesCache' = datesCache
          ELSE /\ req'[r].gad = "pending"
               /\ req'[r].pc = "gadFetch"
               /\ req'[r].sent.dates = 1
               /\ datesCache' = datesCache]_vars

\* C1 witness: one call was served from the cache, and another one, made exactly
\* ttl after the cached entry was fetched, is refreshing.
C1_Witness ==
    \E r, q \in Reqs :
       /\ req[r].gad = "hit"
       /\ req[q].gad = "pending"
       /\ Present(datesCache.data)
       /\ Present(datesCache.timestamp)
       /\ req[q].gadNow - datesCache.timestamp.v = datesCache.ttl

\* C2: when the refresh fails (the fetch rejects, the status is not a success, or
\* the body does not parse) the step leaves the cache entry as it was, and
\* getAvailableDates returns '2025-06' and throws nothing.
C2_RefreshFailure ==
    [][\A r \in Reqs : (GadReturns(r) /\ req'[r].gad = "failed") =>
          /\ datesCache' = datesCache
          /\ req'[r].gadResult = Str("2025-06")
          /\ ~req'[r].gadThrew]_vars

\* C2 witness: a refresh failed while an expired value was still cached, and the
\* page was served with the fallback.
C2_Witness ==
    \E r \in Reqs :
       /\ req[r].gad = "failed"
       /\ req[r].kind = "page"
       /\ req[r].res.payload = Str("2025-06")
       /\ Present(datesCache.data)
       /\ Present(datesCache.timestamp)
       /\ now - datesCache.timestamp.v >= datesCache.ttl

\* C3: when the refresh parses a dates list that has a first entry, the cache
\* entry becomes {data: that entry's date, timestamp: the `now` the call read on
\* entry, ttl: as before} and the call returns that same date.
C3_RefreshSuccess ==
    [][\A r \in Reqs :
          (GadReturns(r) /\ req'[r].gad = "refreshed" /\ req'[r].firstDate # JsNull) =>
             /\ datesCache' = [data |-> req'[r].firstDate,
                               timestamp |-> Num(req[r].gadNow),
                               ttl |-> datesCache.ttl]
             /\ req'[r].gadResult = req'[r].firstDate
             /\ ~req'[r].gadThrew]_vars

\* C3 witness: a refresh parsed a list whose first entry is 2025-08, which is now
\* cached and was returned to the page.
C3_Witness ==
    \E r \in Reqs :
       /\ req[r].gad = "refreshed"
       /\ req[r].firstDate = Str("2025-08")
       /\ req[r].kind = "page"
       /\ req[r].res.payload = Str("2025-08")
       /\ datesCache.data = Str("2025-08")

\* C4: the cache entry's value and fetchedAt are both present or both absent.
C4_BothOrNeither == Present(datesCache.data) <=> Present(datesCache.timestamp)

\* C5: every read of the cache entry observes a value and a fetchedAt that one
\* refresh wrote together (or the initial empty entry).
C5_NoTornRead ==
    /\ \A r \in Reqs : ~req[r].tornRead
    /\ <<datesCache.data, datesCache.timestamp>> \in {<<JsNull, JsNull>>, lastCommit}

\* C5 witness: a call read the cache, after a refresh had replaced it, while
\* another call's refresh was in flight.
C5_Witness ==
    \E r, q \in Reqs :
       /\ req[r].gad = "hit"
       /\ req[q].pc \in {"gadFetch", "gadJson"}
       /\ lastCommit # <<JsNull, JsNull>>

\* C6: a call that starts on a miss while another call's refresh is in flight
\* issues its own upstream request and leaves the other call alone; no pending
\* call waits for another (its own response can always arrive); and each call
\* returns the date of its own response, or the fallback.
C6_NoSingleFlight ==
    /\ [](\A r \in Reqs : req[r].pc = "gadFetch" => ENABLED GadFetchSettles(r))
    /\ [](\A r \in Reqs : req[r].pc = "gadJson" => ENABLED GadJsonResolves(r))
    /\ [][\A r \in Reqs :
            /\ (/\ CallsGad(r)
                /\ ~HoldsFreshValue(datesCache, now)
                /\ \E q \in Reqs \ {r} : req[q].gad = "pending")
               => /\ req'[r].gad = "pending"
                  /\ req'[r].sent.dates = 1
                  /\ \A q \in Reqs \ {r} : req'[q] = req[q]
            /\ (GadReturns(r) /\ req'[r].gad = "refreshed")
               => req'[r].gadResult = IF req'[r].firstDate = JsNull
                                      THEN Str("2025-06") ELSE req'[r].firstDate
            /\ (GadReturns(r) /\ req'[r].gad = "failed")
               => req'[r].gadResult = Str("2025-06")]_vars

\* C6 witness: two refreshes are in flight at once, each with its own request.
C6_Witness ==
    \E r, q \in Reqs :
       /\ r # q
       /\ req[r].gad = "pending" /\ req[r].sent.dates = 1
       /\ req[q].gad = "pending" /\ req[q].sent.dates = 1

\* C7: no request issues more than one upstream request per upstream resource; a
\* getAvailableDates call that missed has issued exactly one dates request when it
\* returns, whether the refresh succeeded or failed; /api/dates and /api/forces
\* answer after exactly one request.
C7_NoRetries ==
    \A r \in Reqs :
       /\ req[r].sent.dates <= 1 /\ req[r].sent.crimes <= 1 /\ req[r].sent.forces <= 1
       /\ req[r].gad \in {"refreshed", "failed"} => req[r].sent.dates = 1
       /\ (req[r].kind = "dates" /\ req[r].pc = "done") => req[r].sent.dates = 1
       /\ (req[r].kind = "forces" /\ req[r].pc = "done") => req[r].sent.forces = 1
       /\ (req[r].kind = "crimes" /\ req[r].pc = "done" /\ req[r].res.status # 400)
             => req[r].sent.crimes = 1

\* C7 witness: a refresh made after the ttl had elapsed failed, and the caller
\* got its answer after that single request.
C7_Witness ==
    \E r \in Reqs :
       /\ req[r].gad = "failed"
       /\ req[r].pc = "done"
       /\ req[r].sent.dates = 1
       /\ Present(datesCache.timestamp)
       /\ now - datesCache.timestamp.v >= datesCache.ttl

\* C8: the cache entry changes only in the step in which a getAvailableDates
\* refresh succeeds, and its ttl is one hour in every reachable state.
C8_CacheFrame ==
    /\ [](datesCache.ttl = 3600000)
    /\ [][datesCache' # datesCache =>
            \E r \in Reqs : req[r].pc = "gadJson" /\ req'[r].gad = "refreshed"]_vars

\* C8 witness: /api/dates answered with the upstream list and the cache is still
\* empty.
C8_Witness ==
    \E r \in Reqs :
       /\ req[r].kind = "dates"
       /\ req[r].pc = "done"
       /\ req[r].res.status = 200
       /\ req[r].res.payload.latest = Str("2025-08")
       /\ datesCache = InitialCache

\* C9: when coordinate validation fails, /api/crimes answers 400 with
\* {success: false, error}, has issued no upstream request and has not read the
\* dates cache.
C9_InvalidCoordinates ==
    \A r \in Reqs : (req[r].kind = "crimes" /\ ~req[r].validation.valid) =>
       /\ req[r].pc = "done"
       /\ req[r].res.status = 400
       /\ ~req[r].res.success
       /\ req[r].res.error = req[r].validation.error
       /\ req[r].sent = NoSent
       /\ req[r].cacheReads = 0
       /\ req[r].gad = "none"

\* C9 witness: a request with out-of-range longitude was rejected while the cache
\* was empty.
C9_Witness ==
    \E r \in Reqs :
       /\ req[r].kind = "crimes"
       /\ req[r].res.status = 400
       /\ req[r].res.error = LongitudeError
       /\ datesCache = InitialCache

\* C10: validateCoordinates fails with 'Invalid coordinate format' exactly when the
\* latitude text or the longitude text does not parse to a finite number, before
\* either range check.
C10_FormatErrorIffNotFinite ==
    vin.done =>
       ((~vout.valid /\ vout.error = "Invalid coordinate format")
          <=> (parseFloat(vin.lat).kind # "num" \/ parseFloat(vin.lng).kind # "num"))

\* C10, for the revision whose format check is Number.isFinite
C10_Part001 == revision = "part_001" => C10_FormatErrorIffNotFinite

C10_Part001_Witness ==
    /\ revision = "part_001"
    /\ vin.done
    /\ parseFloat(vin.lat).kind = "inf"
    /\ vout.error = "Invalid coordinate format"

\* |x| <= b for a finite x = +-m * 10^e, by cross-multiplication
AbsAtMost(x, b) ==
    \/ x.m = 0
    \/ x.e >= 0 /\ x.e <= 3 /\ x.m <= b /\ x.m * Pow10(x.e) <= b
    \/ x.e < 0 /\ (NumDigits(x.m) + x.e <= 0 \/ x.m <= b * Pow10(-x.e))

\* C11: when both texts parse to finite numbers, validateCoordinates succeeds,
\* returning exactly the parsed pair, iff -90 <= lat <= 90 and -180 <= lng <= 180;
\* otherwise it fails with the latitude error when lat is out of range (whatever
\* lng is) and with the longitude error when only lng is; the call leaves the
\* server's state as it was.
C11_RangeChecks ==
    LET lat == parseFloat(vin.lat)
        lng == parseFloat(vin.lng)
    IN (vin.done /\ lat.kind = "num" /\ lng.kind = "num") =>
          /\ IF ~AbsAtMost(lat, 90)
             THEN ~vout.valid /\ vout.error = "Latitude must be between -90 and 90"
             ELSE IF ~AbsAtMost(lng, 180)
             THEN ~vout.valid /\ vout.error = "Longitude must be between -180 and 180"
             ELSE vout.valid /\ vout.lat = lat /\ vout.lng = lng
          /\ datesCache = InitialCache
          /\ req = [r \in Reqs |-> IdleReq]

\* C11 witness: both bounds are met exactly (90.0 and -180) and the call succeeded.
C11_Witness ==
    /\ vin.done
    /\ vin.lat = <<"9", "0", ".", "0">>
    /\ vin.lng = <<"-", "1", "8", "0">>
    /\ vout.valid

\* C12: in /api/crimes, a date the caller supplies is the query date, verbatim,
\* and the date of the response; such a request issues no upstream dates request
\* and never reads the cache.  Without a date (none, or an empty one) the request
\* calls getAvailableDates once and queries, and answers with, what it returned:
\* the cached value, the refreshed value or the fallback.
C12_DateResolution ==
    /\ [](\A r \in Reqs : req[r].pc \in {"crimesFetch", "crimesJson"} =>
            IF Present(req[r].date) /\ req[r].date # Str("")
            THEN /\ req[r].queryDate = req[r].date
                 /\ req[r].sent.dates = 0
                 /\ req[r].cacheReads = 0
                 /\ req[r].gad = "none"
            ELSE /\ req[r].cacheReads = 1
                 /\ req[r].pc = "crimesFetch" =>
                       /\ req[r].gad \in {"hit", "refreshed", "failed"}
                       /\ req[r].queryDate = req[r].gadResult
                       /\ req[r].gad = "failed" => req[r].queryDate = Str("2025-06")
                       /\ ~req[r].gadThrew)
    /\ [][\A r \in Reqs :
            /\ (req[r].pc = "crimesJson" /\ req'[r].res.success)
                  => req'[r].res.payload.date = req[r].queryDate
            /\ (req[r].pc = "crimesFetch" /\ req'[r].pc = "crimesJson")
                  => req'[r].queryDate = req[r].queryDate /\ req'[r].date = req[r].date
            /\ (CallsGad(r) /\ req'[r].kind = "crimes" /\ req'[r].gad = "hit")
                  => req'[r].queryDate = datesCache.data]_vars

\* C12 witness: a request with date 2024-01 was answered for 2024-01 while the
\* cache held another month, and a request without a date is querying that month.
C12_Witness ==
    \E r, q \in Reqs :
       /\ req[r].kind = "crimes"
       /\ req[r].res.success /\ req[r].res.payload.date = Str("2024-01")
       /\ datesCache.data = Str("2025-08")
       /\ req[q].kind = "crimes" /\ req[q].date = JsUndefined
       /\ req[q].pc = "crimesFetch" /\ req[q].queryDate = Str("2025-08")

\* C13: in /api/crimes with valid coordinates, a timeout of the upstream crimes
\* call is answered 504; any other upstream failure, a non-2xx status or a
\* transport failure such as a refused connection, is answered 502; 500 is left
\* to failures that are not upstream failures; each of these answers has
\* success: false and the generic error text.
C13_ErrorClassification ==
    \A r \in Reqs :
       (req[r].kind = "crimes" /\ req[r].pc = "done" /\ req[r].failure # "none") =>
          /\ req[r].failure = "timeout" => req[r].res.status = 504
          /\ req[r].failure \in {"crimes_status", "network_error"} => req[r].res.status = 502
          /\ req[r].res.status = 500 =>
                req[r].failure \notin {"timeout", "crimes_status", "network_error"}
          /\ req[r].res.status \in {500, 502, 504}
          /\ ~req[r].res.success
          /\ req[r].res.error = "Failed to fetch crime data. Please try again."

\* C13 without the transport failures: a timeout is answered 504, a non-2xx
\* status 502, and what is thrown while the body is read or processed 500.
C13_ThrownStatus ==
    \A r \in Reqs :
       (req[r].kind = "crimes" /\ req[r].pc = "done" /\ req[r].failure # "none") =>
          /\ req[r].failure = "timeout" <=> req[r].res.status = 504
          /\ req[r].failure = "crimes_status" <=> req[r].res.status = 502
          /\ ~req[r].res.success
          /\ req[r].res.error = "Failed to fetch crime data. Please try again."

\* the response's fields are all computed from the crimes list it carries
FromOneList(p) ==
    LET crimes == [type |-> "array", items |-> p.crimes]
    IN /\ p.count = Len(p.crimes)
       /\ p.categories = processCrimeCategories(crimes).value
       /\ p.bounds = calculateBounds(crimes)
       /\ p.sample = IF p.crimes = <<>> THEN JsNull ELSE Head(p.crimes)

\* a /api/crimes request has answered at most once, and what it answered is a
\* full success or an error
OneOutcome(r) ==
    /\ req[r].responses = IF req[r].pc = "done" THEN 1 ELSE 0
    /\ req[r].pc = "done" =>
          \/ /\ req[r].res.success
             /\ req[r].res.status = 200
             /\ req[r].failure = "none"
             /\ req[r].validation.valid
             /\ req[r].sent.crimes = 1
             /\ FromOneList(req[r].res.payload)
          \/ /\ ~req[r].res.success
             /\ req[r].res.status \in {400, 500, 502, 504}
             /\ req[r].res.error # ""
             /\ req[r].res.payload = JsUndefined

\* C14: every /api/crimes request gets exactly one response: a full success
\* (success: true with count, crimes, categories, bounds, sample and date, all of
\* one upstream list) or one error (success: false with 400, 500, 502 or 504);
\* nothing is answered success: true after a failure, and every request that has
\* started is answered.
C14_ExactlyOneOutcome ==
    /\ [](\A r \in Reqs : req[r].kind = "crimes" => OneOutcome(r))
    /\ \A r \in Reqs : (req[r].kind = "crimes") ~> (req[r].pc = "done")

\* C14 witness: a request was answered with three records, their categories and
\* their bounds, after a refresh of the dates that failed.
C14_Witness ==
    \E r \in Reqs :
       /\ req[r].kind = "crimes" /\ req[r].res.success
       /\ req[r].responses = 1
       /\ req[r].res.payload.count = 3
       /\ req[r].res.payload.bounds # JsNull
       /\ req[r].res.payload.date = Str("2025-06")

\* the safety part of C14, for requests that overlap
C14_Overlapping == \A r \in Reqs : req[r].kind = "crimes" => OneOutcome(r)

\* the records of the list under test, when each of them is an object
Records == fin.crimes.items

AllRecords == \A i \in 1..Len(Records) : Records[i].type = "object"

\* the name a record is counted under
CountedUnder(c) ==
    IF c.category.type \in {"undefined", "null"} \/ c.category = Str("") THEN "unknown"
    ELSE c.category.v

RECURSIVE SumOf(_, _)
SumOf(f, keys) ==
    IF keys = {} THEN 0
    ELSE LET k == CHOOSE k \in keys : TRUE IN f[k].v + SumOf(f, keys \ {k})

CategoryCountsRight ==
    LET categories == fout.categories.value
    IN /\ ~fout.categories.threw
       /\ DOMAIN categories = { CountedUnder(Records[i]) : i \in 1..Len(Records) }
       /\ \A k \in DOMAIN categories :
             /\ categories[k].type = "number"
             /\ categories[k].v = Cardinality({ i \in 1..Len(Records) :
                                                  CountedUnder(Records[i]) = k })
             /\ categories[k].v # 0
       /\ (\A k \in DOMAIN categories : categories[k].type = "number")
             => SumOf(categories, DOMAIN categories) = Len(Records)

\* C15: processCrimeCategories maps each category name to the number of records
\* that carry it, with the records whose category is missing or empty counted
\* under 'unknown'; its keys are the categories that occur, no count is 0 and the
\* counts add up to the number of records.
C15_CategoryCounts ==
    (fout.categories # NotCalled /\ AllRecords) => CategoryCountsRight

\* C15 for lists in which no category bears the name of a member of
\* Object.prototype
C15_OwnNames ==
    (/\ fout.categories # NotCalled
     /\ AllRecords
     /\ \A i \in 1..Len(Records) : CountedUnder(Records[i]) \notin ObjectPrototypeKeys)
       => CategoryCountsRight

C15_OwnNames_Witness ==
    /\ fout.categories # NotCalled
    /\ ~fout.categories.threw
    /\ DOMAIN fout.categories.value = {"burglary", "unknown"}
    /\ fout.categories.value["burglary"] = Num(2)
    /\ fout.categories.value["unknown"] = Num(1)

\* a coordinate that is present and numeric
Numeric(x) == x.type = "text" /\ parseFloat(x.v).kind = "num"

\* the records calculateBounds is to consider
Qualifying ==
    { i \in 1..Len(Records) :
         /\ Records[i].type = "object"
         /\ Records[i].location.type = "object"
         /\ Numeric(Records[i].location.latitude)
         /\ Numeric(Records[i].location.longitude) }

LatitudeOf(i) == parseFloat(Records[i].location.latitude.v)
LongitudeOf(i) == parseFloat(Records[i].location.longitude.v)

\* x is the greatest (the least) of the qualifying records' Coordinate(i)
GreatestOf(x, Coordinate(_)) ==
    /\ x.kind = "num"
    /\ \E i \in Qualifying : LessOrEqual(x, Coordinate(i)) /\ LessOrEqual(Coordinate(i), x)
    /\ \A i \in Qualifying : LessOrEqual(Coordinate(i), x)

LeastOf(x, Coordinate(_)) ==
    /\ x.kind = "num"
    /\ \E i \in Qualifying : LessOrEqual(x, Coordinate(i)) /\ LessOrEqual(Coordinate(i), x)
    /\ \A i \in Qualifying : LessOrEqual(x, Coordinate(i))

BoundsRight ==
    LET bounds == fout.bounds.value
    IN IF Qualifying = {} THEN bounds = JsNull
       ELSE /\ bounds # JsNull
            /\ GreatestOf(bounds.north, LatitudeOf)
            /\ LeastOf(bounds.south, LatitudeOf)
            /\ GreatestOf(bounds.east, LongitudeOf)
            /\ LeastOf(bounds.west, LongitudeOf)
            /\ LessOrEqual(bounds.south, bounds.north)
            /\ LessOrEqual(bounds.west, bounds.east)

\* C16: calculateBounds returns null when no record has a latitude and a
\* longitude that are both present and numeric, and otherwise the greatest and
\* least latitude (north, south) and longitude (east, west) of the records that
\* have: four numbers with south <= north and west <= east, on which no other
\* record has any influence.
C16_Bounds == fout.bounds # NotCalled => BoundsRight

\* C16 for lists in which every coordinate that is present is numeric
C16_NumericCoordinates ==
    (/\ fout.bounds # NotCalled
     /\ \A i \in 1..Len(Records) :
           (Records[i].type = "object" /\ Records[i].location.type = "object") =>
              /\ Truthy(Records[i].location.latitude) => Numeric(Records[i].location.latitude)
              /\ Truthy(Records[i].location.longitude) => Numeric(Records[i].location.longitude))
       => BoundsRight

C16_NumericCoordinates_Witness ==
    /\ fout.bounds # NotCalled
    /\ Cardinality(Qualifying) = 2
    /\ Len(Records) = 3
    /\ fout.bounds.value # JsNull
    /\ fout.bounds.value.north = Finite(FALSE, 52, 0)
    /\ fout.bounds.value.south = Finite(FALSE, 507, -1)
    /\ fout.bounds.value.east = Finite(FALSE, 15, -1)
    /\ fout.bounds.value.west = Finite(TRUE, 2, 0)

\* C17: a successful /api/crimes response has count = the length of the list
\* upstream returned, crimes = that list as it came, sample = its first record, or
\* null when it is empty, and message = a text when it is empty, null otherwise.
C17_ResponseFields ==
    (req["r1"].pc = "done" /\ req["r1"].res.success) =>
       LET p == req["r1"].res.payload
       IN /\ p.count = Len(Records)
          /\ p.crimes = Records
          /\ p.sample = IF Len(Records) = 0 THEN JsNull ELSE Records[1]
          /\ IF Len(Records) = 0
             THEN p.message.type = "string" /\ p.message.v # ""
             ELSE p.message = JsNull

\* C17 witness: a list of three records, the first unlike the last, was answered.
C17_Witness ==
    /\ req["r1"].pc = "done"
    /\ req["r1"].res.success
    /\ Len(Records) = 3
    /\ Records[1] # Records[3]
    /\ req["r1"].res.payload.sample = Records[1]

\* a field of the body is missing or empty
MissingOrEmpty(f) == ~f.present \/ Len(f.text) = 0

\* local@domain.tld: three non-empty parts without whitespace or '@'
MatchesPattern(e) ==
    \E a, d \in 1..Len(e) :
       /\ e[a] = "@" /\ e[d] = "."
       /\ 1 < a /\ a + 1 < d /\ d < Len(e)
       /\ \A i \in 1..Len(e) : (i # a /\ i # d) => e[i] \notin {"@", " "}

\* C18: POST /api/contact answers 400, success: false, when one of name, email,
\* subject, message is missing or empty (this is checked first) or when the email
\* is not of the form local@domain.tld without whitespace or a second '@'; it
\* answers success: true exactly when the four are present and the email is of
\* that form; either way the server's state stays as it was.
C18_ContactValidation ==
    req["r1"].pc = "done" =>
       LET res == req["r1"].res
           missing == \/ MissingOrEmpty(fin.name) \/ MissingOrEmpty(fin.email)
                      \/ MissingOrEmpty(fin.subject) \/ MissingOrEmpty(fin.message)
       IN /\ missing =>
                res.status = 400 /\ ~res.success /\ res.error = "All fields are required"
          /\ (~missing /\ ~MatchesPattern(fin.email.text)) =>
                res.status = 400 /\ ~res.success /\ res.error = "Invalid email address"
          /\ res.success <=> (~missing /\ MatchesPattern(fin.email.text))
          /\ res.success => res.status = 200
          /\ req["r1"].responses = 1
          /\ datesCache = InitialCache
          /\ lastCommit = <<JsNull, JsNull>>
          /\ req["r2"] = IdleReq

\* C18 witness: a body with all four fields, its email with two dots, was accepted.
C18_Witness ==
    /\ req["r1"].pc = "done"
    /\ req["r1"].res.success
    /\ fin.email = Param(<<"a", "@", "b", ".", "c", ".", "d">>)
    /\ Len(fin.message.text) > 5000

\* the first n characters of a text
Prefix(t, n) == [i \in 1..(IF Len(t) < n THEN Len(t) ELSE n) |-> t[i]]

Kept(c) == c # "<" /\ c # ">"

\* a text with its < and > taken out
WithoutAngles(t) == SelectSeq(t, Kept)

\* the sanitised text is the input's prefix of at most n characters without < and >
Sanitised(out, in, n) ==
    /\ Len(out) <= n
    /\ \A i \in 1..Len(out) : out[i] \notin {"<", ">"}
    /\ out = WithoutAngles(Prefix(in, n))

TextFieldsSanitised ==
    /\ Sanitised(req["r1"].sanitized.name, fin.name.text, 100)
    /\ Sanitised(req["r1"].sanitized.subject, fin.subject.text, 200)
    /\ Sanitised(req["r1"].sanitized.message, fin.message.text, 5000)
    /\ req["r1"].sanitized.email = Prefix(fin.email.text, 100)

\* C19: of every accepted submission the sanitised name has at most 100
\* characters, the subject at most 200 and the message at most 5000, none of them
\* contains < or >, each is the input's prefix of that length with < and > taken
\* out, and the sanitised email, the first 100 characters of the input's, still
\* matches the pattern the submission was accepted by.
C19_Sanitisation ==
    (req["r1"].pc = "done" /\ req["r1"].res.success) =>
       /\ TextFieldsSanitised
       /\ MatchesPattern(req["r1"].sanitized.email)

\* C19 without its last part: what holds of the three texts and of the email's
\* length
C19_TextFields ==
    (req["r1"].pc = "done" /\ req["r1"].res.success) => TextFieldsSanitised

C19_TextFields_Witness ==
    /\ req["r1"].pc = "done"
    /\ req["r1"].res.success
    /\ Len(fin.name.text) = 101
    /\ Len(req["r1"].sanitized.name) = 99
    /\ Len(req["r1"].sanitized.message) = 4999

\* two characters are the same letter, whatever their case
SameLetter(a, b) ==
    \/ a = b
    \/ \E k \in 1..26 : {a, b} = {UpperCase[k], LowerCase[k]}

ContainsIgnoringCase(name, q) ==
    \E i \in 0..(Len(name) - Len(q)) : \A j \in 1..Len(q) : SameLetter(name[i + j], q[j])

FixedList ==
    << <<"L", "o", "n", "d", "o", "n">>,
       <<"M", "a", "n", "c", "h", "e", "s", "t", "e", "r">>,
       <<"B", "i", "r", "m", "i", "n", "g", "h", "a", "m">>,
       <<"L", "e", "e", "d", "s">>,
       <<"L", "i", "v", "e", "r", "p", "o", "o", "l">> >>

\* the query with every letter in lower case, and in upper case
InLowerCase(t) ==
    [i \in 1..Len(t) |->
        IF \E k \in 1..26 : UpperCase[k] = t[i]
        THEN LowerCase[CHOOSE k \in 1..26 : UpperCase[k] = t[i]] ELSE t[i]]

InUpperCase(t) ==
    [i \in 1..Len(t) |->
        IF \E k \in 1..26 : LowerCase[k] = t[i]
        THEN UpperCase[CHOOSE k \in 1..26 : LowerCase[k] = t[i]] ELSE t[i]]

\* C20: GET /api/search answers {suggestions: []} when the query is absent or
\* shorter than 3 characters; for a longer query it answers with the entries of
\* London, Manchester, Birmingham, Leeds, Liverpool whose name contains the query
\* whatever the case of the letters, in that order, so that the answer is the one
\* given to the same query typed in lower or in upper case.
C20_Search ==
    req["r1"].pc = "done" =>
       LET suggestions == req["r1"].res.payload
           Wanted(name) == ContainsIgnoringCase(name, fin.q.text)
       IN /\ req["r1"].res.status = 200
          /\ IF ~fin.q.present \/ Len(fin.q.text) < 3
             THEN suggestions = <<>>
             ELSE /\ suggestions = SelectSeq(FixedList, Wanted)
                  /\ suggestions = Search(IdleReq, Param(InLowerCase(fin.q.text))).res.payload
                  /\ suggestions = Search(IdleReq, Param(InUpperCase(fin.q.text))).res.payload

\* C20 witness: the query lON was answered with London.
C20_Witness ==
    /\ req["r1"].pc = "done"
    /\ fin.q = Param(<<"l", "O", "N">>)
    /\ req["r1"].res.payload = << <<"L", "o", "n", "d", "o", "n">> >>

-----------------------------------------------------------------------------
(* C21: what /api/dates answers                                             *)

\* the first n entries of a list, in its order
FirstEntries(s, n) == [i \in 1..(IF Len(s) < n THEN Len(s) ELSE n) |-> s[i]]

DatesPageSize == 12

\* C21: when the upstream call succeeded, /api/dates answers 200 success:true
\* with the first 12 entries of the upstream list in upstream order (all of them
\* when there are fewer) and with latest the date of the first entry, null for
\* the empty list; when the upstream call failed in any way it answers 500
\* success:false with no dates and no latest; neither the fallback date nor the
\* cached value is ever put in the answer, and the cache is left as it was.
C21_ApiDates ==
    req["r1"].pc = "done" =>
       LET res == req["r1"].res
           upstream == fin.dates.items
       IN /\ datesCache \in {InitialCache, WarmCache}
          /\ IF fin.outcome = "ok"
             THEN /\ res.status = 200
                  /\ res.success
                  /\ res.payload.dates = FirstEntries(upstream, DatesPageSize)
                  /\ Len(upstream) = 0 => res.payload.latest = JsNull
                  /\ Len(upstream) > 0 /\ Present(upstream[1].date)
                        => res.payload.latest = upstream[1].date
                  /\ Len(upstream) > 0 /\ ~Present(upstream[1].date)
                        => ~Present(res.payload.latest)
             ELSE /\ res.status = 500
                  /\ ~res.success
                  /\ res.payload = JsUndefined

\* C21 witness: thirteen months came back, not in calendar order, while the
\* cache held another month; twelve were returned as they came.
C21_Witness ==
    /\ req["r1"].pc = "done"
    /\ fin.outcome = "ok"
    /\ Len(fin.dates.items) = 13
    /\ fin.dates.items = Reverse(MonthsFrom(1, 13))
    /\ datesCache = WarmCache
    /\ Len(req["r1"].res.payload.dates) = 12
    /\ req["r1"].res.payload.latest = Str("2024-08")

\* C21 witness of the failure side: the upstream call timed out and a fresh
\* cache entry was at hand.
C21_Failure_Witness ==
    /\ req["r1"].pc = "done"
    /\ fin.outcome = "timeout"
    /\ datesCache = WarmCache
    /\ req["r1"].res.status = 500

-----------------------------------------------------------------------------
(* C22: /city/:cityname                                                     *)

\* the slug is a key of the city table once its letters are lower-cased
IsTableKey(typed) == \E i \in 1..Len(CityRows) : CityRows[i][1] = InLowerCase(typed)

RowOf(typed) == CityRows[CHOOSE i \in 1..Len(CityRows) : CityRows[i][1] = InLowerCase(typed)][2]

CityLookupRight ==
    LET res == req["r1"].res
    IN /\ IF IsTableKey(fin.slug)
          THEN /\ res.status = 200
               /\ res.payload = [view |-> "city", cityName |-> RowOf(fin.slug).name,
                                 cityLat |-> RowOf(fin.slug).lat,
                                 cityLng |-> RowOf(fin.slug).lng,
                                 cityRegion |-> RowOf(fin.slug).region]
          ELSE res.status = 404
       /\ res = CityPage(IdleReq, InLowerCase(fin.slug)).res
       /\ res = CityPage(IdleReq, InUpperCase(fin.slug)).res

\* C22: GET /city/:name renders the name, coordinates and region of the table
\* row whose key equals the lower-cased slug, answers 404 for every other slug,
\* and answers two slugs that differ only in letter case alike.
C22_CityLookup ==
    req["r1"].pc = "done" => CityLookupRight

\* C22 for the slugs that do not name a member of Object.prototype
C22_OwnKeys ==
    (/\ req["r1"].pc = "done"
     /\ InLowerCase(fin.slug) \notin InheritedFunctions \cup {ProtoAccessor})
       => CityLookupRight

\* C22_OwnKeys witness: MILTON-KEYNES was answered with the Milton Keynes row.
C22_OwnKeys_Witness ==
    /\ req["r1"].pc = "done"
    /\ fin.slug = <<"M", "I", "L", "T", "O", "N", "-", "K", "E", "Y", "N", "E", "S">>
    /\ req["r1"].res.status = 200
    /\ req["r1"].res.payload.cityName = Str("Milton Keynes")
    /\ req["r1"].res.payload.cityLng = Str("-0.7594")

-----------------------------------------------------------------------------
(* C23: error details                                                       *)

\* the body of the response to r: success, error and whatever else was attached
Body(r) == [success |-> req[r].res.success, error |-> req[r].res.error,
            rest |-> req[r].res.payload]

\* C23: when NODE_ENV is 'production', two failed /api/crimes requests that are
\* answered with the same status code get the same body, which carries the generic
\* message and no details, whatever the two error texts were; a body carries
\* details only when NODE_ENV is not 'production'.
C23_ProductionBodies ==
    /\ \A r \in Reqs :
          req[r].pc = "done" =>
             /\ Body(r).error = CrimesError
             /\ ~Body(r).success
             /\ Body(r).rest # JsUndefined => nodeEnv # Str("production")
    /\ (/\ nodeEnv = Str("production")
        /\ \A r \in Reqs : req[r].pc = "done"
        /\ req["r1"].res.status = req["r2"].res.status)
          => /\ Body("r1") = Body("r2")
             /\ Body("r1").rest = JsUndefined

\* C23 witness: in production a refused connection and an unparsable body were
\* both answered 500.
C23_Witness ==
    /\ nodeEnv = Str("production")
    /\ \A r \in Reqs : req[r].pc = "done" /\ req[r].res.status = 500
    /\ req["r1"].failure = "network_error"
    /\ req["r2"].failure = "invalid_json"

\* C23 witness of the other side: in development the details were attached.
C23_Development_Witness ==
    /\ nodeEnv = Str("development")
    /\ req["r1"].pc = "done"
    /\ req["r1"].res.payload = [details |-> Str("crimes_status_503")]

-----------------------------------------------------------------------------
(* C24: where cached values come from                                       *)

\* C24: every value a refresh stores in the cache is the date of the first entry
\* of the list that refresh received; a list without entries stores nothing, so
\* the fallback '2025-06' never becomes a cached value.
C24_CachedFromUpstream ==
    [][\A r \in Reqs :
          (GadReturns(r) /\ datesCache' # datesCache) =>
             /\ req'[r].firstDate # JsNull
             /\ datesCache'.data = req'[r].firstDate]_vars

\* C24 for the refreshes that received a list with a first entry
C24_FromFirstEntry ==
    [][\A r \in Reqs :
          (GadReturns(r) /\ datesCache' # datesCache /\ req'[r].firstDate # JsNull)
             => datesCache'.data = req'[r].firstDate]_vars

\* the fallback sits in the cache with a timestamp and is served as a hit
C24_FallbackServed ==
    \E r \in Reqs :
       /\ req[r].gad = "hit"
       /\ req[r].gadResult = Str(FallbackDate)
       /\ datesCache.data = Str(FallbackDate)
       /\ Present(datesCache.timestamp)

-----------------------------------------------------------------------------
(* C25: the order of cache timestamps                                       *)

\* C25: from one cache state to the next the entry's fetchedAt never decreases,
\* and the fetchedAt a refresh stores is not earlier than the moment that refresh
\* issued its upstream request.
C25_FetchedAtMonotonic ==
    [][/\ (Present(datesCache.timestamp) /\ Present(datesCache'.timestamp))
             => datesCache'.timestamp.v >= datesCache.timestamp.v
       /\ \A r \in Reqs :
             (GadReturns(r) /\ datesCache' # datesCache)
                => datesCache'.timestamp.v >= req[r].gadNow]_vars

\* C25, second half alone: a refresh stamps the entry with the time at which it
\* issued its request
C25_StampedAtIssue ==
    [][\A r \in Reqs :
          (GadReturns(r) /\ datesCache' # datesCache)
             => datesCache'.timestamp = Num(req[r].gadNow)]_vars

-----------------------------------------------------------------------------
(* C26: one load at a time                                                  *)

\* the calls that are inside loadCrimes, at one of its awaits
Loading == { t \in Tasks : client.call[t].pc \in {"fetch", "json"} }

\* a method called loadCrimes in this step while a load was going on
SkippedLoad == client.isLoading /\ client'.run.handler = "call" /\ client' # client

\* C26: at most one /api/crimes request of the page is in flight; isLoading is
\* true exactly while one call is inside loadCrimes, so it is false again once
\* that call has returned; a loadCrimes call made meanwhile returns null, issues
\* no request, leaves currentCrimes alone and does not call onDataLoaded;
\* loadCrimes never rejects; and a load that is going on comes to an end when its
\* request is answered or fails.
C26_SingleFlight ==
    /\ [](/\ client.inFlight <= 1
          /\ Cardinality(Loading) <= 1
          /\ client.inFlight = Cardinality(Loading)
          /\ client.isLoading <=> Loading # {}
          /\ client.last.result # "rejected")
    /\ [][SkippedLoad =>
             /\ client'.last.skipped
             /\ client'.last.result = "null"
             /\ client'.inFlight = client.inFlight
             /\ client'.currentCrimes = client.currentCrimes
             /\ client'.run.notified = 0
             /\ \A t \in Tasks : client'.call[t] = client.call[t]]_vars
    /\ (client.isLoading ~> ~client.isLoading)

\* C26 witness: goToLocation was refused while updateCurrentLocation was loading.
C26_Witness ==
    \E t \in Tasks :
       /\ client.call[t].op = "updateCurrentLocation"
       /\ client.call[t].pc = "json"
       /\ client.isLoading
       /\ client.last.op = "goToLocation"
       /\ client.last.skipped
       /\ client.run.handler = "call"

\* C26 witness of the release: a load failed on the network and the next one
\* was let in.
C26_Release_Witness ==
    \E t \in Tasks :
       /\ client.notification = LoadFailedText
       /\ client.last.result = "null" /\ ~client.last.skipped
       /\ client.call[t].pc = "fetch"

-----------------------------------------------------------------------------
(* C27: location bookkeeping                                                *)

\* a caller of loadCrimes resumes in this step, after a load or a refusal
Resumes ==
    \/ SkippedLoad
    \/ \E t \in Tasks : client.call[t].pc \in {"fetch", "json"} /\ client'.call[t].pc = "idle"

\* C27: when a caller of loadCrimes sets lastUpdateLocation to the place it asked
\* for, clears hasMovedSinceUpdate and hides the update button, currentCrimes
\* holds the crimes loaded for that place; updateCurrentLocation shows 'Location
\* updated successfully!' only after a load that succeeded and shows its failure
\* notification after a load that failed or was refused.
C27_LocationBookkeeping ==
    [][Resumes =>
          /\ (/\ client'.lastUpdateLocation = client'.last.at
              /\ ~client'.hasMovedSinceUpdate
              /\ client'.updateButton = "none")
                => /\ client'.last.result = "data"
                   /\ client'.currentCrimes = CrimesAt(client'.last.at)
          /\ client'.last.op = "updateCurrentLocation"
                => client'.notification = IF client'.last.result = "data"
                                          THEN UpdatedText ELSE UpdateFailedText]_vars

\* C27 for the loads that succeeded
C27_AfterSuccess ==
    [][(Resumes /\ client'.last.result = "data") =>
          /\ client'.lastUpdateLocation = client'.last.at
          /\ ~client'.hasMovedSinceUpdate
          /\ client'.updateButton = "none"
          /\ client'.currentCrimes = CrimesAt(client'.last.at)
          /\ client'.last.op = "updateCurrentLocation" => client'.notification = UpdatedText]_vars

\* the success message is on show for a place whose load failed
C27_SuccessAfterFailure ==
    /\ client.last.op = "updateCurrentLocation"
    /\ client.last.result = "null"
    /\ client.notification = UpdatedText
    /\ client.lastUpdateLocation = "london"
    /\ client.currentCrimes = NoCrimes
    /\ ~client.hasMovedSinceUpdate

-----------------------------------------------------------------------------
(* C28: the filter state                                                    *)

\* 'all' is never in activeFilters together with a category
NeverMixed == ~("all" \in client.activeFilters /\ client.activeFilters # {"all"})

\* a change to a category checkbox does not leave activeFilters empty
NeverEmptied == client.changed \notin {"none", "all"} => client.activeFilters # {}

\* C28: activeFilters never holds 'all' together with a category, is never empty
\* after a change to a category checkbox, and a crime of a category is shown by
\* shouldShowCrime exactly when the checkbox of that category is checked.
C28_FilterState ==
    /\ NeverMixed
    /\ NeverEmptied
    /\ \A category \in client.boxes :
          shouldShowCrime(client, category) <=> category \in client.checked

\* C28 without its last part
C28_ActiveFilters == NeverMixed /\ NeverEmptied

\* C28_ActiveFilters witness: the only checked category was unchecked and the
\* selection fell back to 'all'.
C28_ActiveFilters_Witness ==
    /\ client.changed = "robbery"
    /\ client.boxes = {"burglary", "robbery"}
    /\ client.activeFilters = {"all"}
    /\ client.checked = {"all", "burglary", "robbery"}

\* a category is unchecked and its crimes are still shown
C28_UncheckedShown ==
    /\ client.changed = "burglary"
    /\ "burglary" \in client.boxes
    /\ "burglary" \notin client.checked
    /\ shouldShowCrime(client, "burglary")

-----------------------------------------------------------------------------
(* C29: heat layers on the map                                              *)

\* C29: at most one heat layer is on the map, every heat layer on the map is
\* the one this.heatmapLayer refers to, and none is on the map while the view
\* shows markers only.
C29_OneHeatmapLayer ==
    /\ Cardinality(client.attached) <= 1
    /\ \A id \in client.attached : id = client.heatmapLayer
    /\ client.viewMode = "markers" => client.attached = {}

\* two heat layers are on the map and one of them can no longer be removed
C29_OrphanLayer ==
    /\ Cardinality(client.attached) = 2
    /\ client.retries = 0
    /\ \E id \in client.attached : id # client.heatmapLayer

\* a heat layer is on the map in the markers view
C29_HeatUnderMarkers ==
    /\ client.viewMode = "markers"
    /\ client.attached # {}

-----------------------------------------------------------------------------
(* C30: suggestions and the latest input                                    *)

\* at most one timer is pending, and what handleSearchInput ran on is the text
\* that was in the box when the timer fired
Debounced ==
    /\ client.timers <= 1
    /\ client.timers = 0 => client.handled = client.value

\* C30: input events are debounced (one pending timer at most, the last value of
\* a burst is the one handled); the suggestions on show are those of the query
\* issued last, never those of an earlier query answered late; and once the
\* latest input, shorter than 2 characters, has been handled, nothing is shown.
C30_LatestQuery ==
    /\ Debounced
    /\ client.shown # NoSuggestions => client.shown.for = client.issued
    /\ (client.timers = 0 /\ Len(client.value) < MinSuggestionLength)
          => client.shown = NoSuggestions

\* C30, the debounce alone
C30_Debounce == Debounced

\* C30_Debounce witness: two texts were typed in one burst and only the second
\* was looked up.
C30_Debounce_Witness ==
    /\ client.timers = 0
    /\ client.value = <<"l", "o", "n">>
    /\ client.inFlight = << <<"l", "o", "n">> >>
    /\ client.shown = NoSuggestions

\* the suggestions of an earlier query are on show after those of the latest
C30_StaleSuggestions ==
    /\ client.inFlight = <<>>
    /\ client.timers = 0
    /\ client.issued = <<"l", "o", "n">>
    /\ client.shown = [for |-> <<"l", "e", "e">>, items |-> 1]

\* suggestions are on show although the box holds one character
C30_ShownForShortInput ==
    /\ client.timers = 0
    /\ client.value = <<"l">>
    /\ client.shown # NoSuggestions

====
